---- MODULE Spec2Model ----
(***************************************************************************)
(* BTprinter: the invoice-to-ESC/POS rendering pipeline and the socket     *)
(* handler that feeds it.                                                  *)
(*                                                                         *)
(* Strings are sequences of UTF-16 code units (integers), as in            *)
(* JavaScript: "ab" is <<97, 98>>, "\n" is <<10>>, '\x1B' is <<27>>.       *)
(***************************************************************************)
EXTENDS Integers, Sequences, FiniteSets, TLC

VARIABLES
    lop,      \* layout call made: "none" or the name of the function called
    ltext,    \* the text / left argument of the layout call
    lright,   \* the right argument of the layout call
    lwidth,   \* the width argument of the layout call
    lout,     \* the string the layout call returned
    rinvoice, \* the document given to formatInvoice
    rwidth,   \* the printerWidth argument given to formatInvoice
    rcall,    \* formatInvoice: "idle", or how the call ended: "return", "throw", "diverge"
    rout,     \* the string formatInvoice returned
    rerr,     \* the error formatInvoice threw
    variant,             \* which App component of App.tsx runs: "BLE" or "Classic"
    connectedDeviceRef,  \* connectedDeviceRef.current is set
    currentCandidateRef, \* currentCandidateRef.current is set (BLE)
    printerWidthRef,     \* printerWidthRef.current, the stored width setting (a string)
    reqs,     \* the data events of the connection, in arrival order
    wire,     \* the responses written to the socket, in write order
    writes,   \* the writes handed to the printer transport, in issue order
    hung      \* the JavaScript thread is inside a call that never returns

layoutVars == <<lop, ltext, lright, lwidth, lout>>
renderVars == <<rinvoice, rwidth, rcall, rout, rerr>>
appVars == <<variant, connectedDeviceRef, currentCandidateRef, printerWidthRef>>
serverVars == <<variant, connectedDeviceRef, currentCandidateRef, printerWidthRef,
                reqs, wire, writes, hung>>
vars == <<lop, ltext, lright, lwidth, lout, rinvoice, rwidth, rcall, rout, rerr,
          variant, connectedDeviceRef, currentCandidateRef, printerWidthRef,
          reqs, wire, writes, hung>>

----------------------------------------------------------------------------
(* Bounds of the model.                                                    *)

MaxTextLen == 90      \* longest text given to wrapText in the wide family
MaxLeftLen == 4       \* longest left text in the small family
MaxRightLen == 5      \* longest right text in the small family
MaxSmallWidth == 5    \* largest width in the small family
MaxToggled == 1       \* fields present in, or absent from, a sample invoice

----------------------------------------------------------------------------
(* JavaScript string primitives.                                           *)

Max(a, b) == IF a >= b THEN a ELSE b
Min(a, b) == IF a <= b THEN a ELSE b

LF == 10
SP == 32

\* The printable characters of the literals, in code order from 32 (" ").
\* Characters the literals do not use hold "?".
Printable ==
    <<" ","!","\"","#","$","%","&","'","(",")","*","+",",","-",".","/",
      "0","1","2","3","4","5","6","7","8","9",":",";","<","=",">","?",
      "@","A","B","C","D","E","F","G","H","I","J","K","L","M","N","O",
      "P","Q","R","S","T","U","V","W","X","Y","Z","[","?","]","^","_",
      "?","a","b","c","d","e","f","g","h","i","j","k","l","m","n","o",
      "p","q","r","s","t","u","v","w","x","y","z","{","|","}">>

\* The code unit of a one-character string.
Ord(c) == 31 + (CHOOSE i \in 1..Len(Printable) : Printable[i] = c)

\* A string literal, written as its characters.
Str(cs) == [i \in 1..Len(cs) |-> Ord(cs[i])]

\* s.substring(from) with 0-based from, clamped as String.prototype.substring does.
SubstringFrom(s, from) ==
    LET f == Min(Max(from, 0), Len(s)) IN SubSeq(s, f + 1, Len(s))

\* s.substring(0, to), clamped to 0..s.length.
SubstringTo(s, to) ==
    LET t == Min(Max(to, 0), Len(s)) IN SubSeq(s, 1, t)

\* c.repeat(n) for a one-character string c and n >= 0.
Repeat(c, n) == [i \in 1..n |-> c]

\* s.padEnd(target): spaces appended up to target, s unchanged when it is longer.
PadEnd(s, target) == s \o Repeat(SP, Max(0, target - Len(s)))

\* s.split("\n"): the segments between line breaks; "" splits to [""].
RECURSIVE SplitLF(_)
SplitLF(s) ==
    IF \A i \in 1..Len(s) : s[i] # LF
    THEN <<s>>
    ELSE LET k == CHOOSE i \in 1..Len(s) :
                      s[i] = LF /\ \A j \in 1..(i - 1) : s[j] # LF
         IN <<SubSeq(s, 1, k - 1)>> \o SplitLF(SubSeq(s, k + 1, Len(s)))

\* lines.join("\n")
RECURSIVE JoinLF(_)
JoinLF(lines) ==
    IF Len(lines) = 0 THEN <<>>
    ELSE IF Len(lines) = 1 THEN lines[1]
    ELSE lines[1] \o <<LF>> \o JoinLF(Tail(lines))

----------------------------------------------------------------------------
(* Text layout engine (BluetoothDeviceSelector.tsx 92-140).                *)

\* The while loop of wrapText ends: each pass removes width characters, so it
\* ends exactly when width > 0 or the text already fits.
wrapTextTerminates(text, width) == width > 0 \/ Len(text) <= width

\* wrapText cutting one character too late (substring(0, width + 1)).
RECURSIVE wrapText_cutsLate(_, _)
wrapText_cutsLate(text, width) ==
    IF Len(text) > width
    THEN SubstringTo(text, width + 1) \o <<LF>>
             \o wrapText_cutsLate(SubstringFrom(text, width + 1), width)
    ELSE text

\* wrapText(text, width), for arguments on which its loop ends.
RECURSIVE wrapText(_, _)
wrapText(text, width) ==
    IF Len(text) > width
    THEN SubstringTo(text, width) \o <<LF>> \o wrapText(SubstringFrom(text, width), width)
    ELSE text

\* centerWrap(text, width): each wrapped line behind floor((width - len) / 2) spaces.
centerWrap(text, width) ==
    LET lines == SplitLF(wrapText(text, width))
        padded == [i \in 1..Len(lines) |->
                     Repeat(SP, (width - Len(lines[i])) \div 2) \o lines[i]]
    IN JoinLF(padded)

\* The forEach body appending right to every line, not only to the first.
RECURSIVE leftRightLines_rightOnEveryLine(_, _, _, _)
leftRightLines_rightOnEveryLine(leftLines, k, leftWidth, right) ==
    IF k > Len(leftLines) THEN <<>>
    ELSE (IF k = 1
          THEN PadEnd(leftLines[k], leftWidth) \o right
          ELSE <<LF>> \o leftLines[k] \o right)
         \o leftRightLines_rightOnEveryLine(leftLines, k + 1, leftWidth, right)

\* The forEach body of leftRightTextWrapped, folded over the lines from index k.
RECURSIVE leftRightLines(_, _, _, _)
leftRightLines(leftLines, k, leftWidth, right) ==
    IF k > Len(leftLines) THEN <<>>
    ELSE (IF k = 1
          THEN PadEnd(leftLines[k], leftWidth) \o right
          ELSE <<LF>> \o leftLines[k])
         \o leftRightLines(leftLines, k + 1, leftWidth, right)

\* leftRightTextWrapped padding the first line to totalWidth instead of leftWidth.
leftRightTextWrapped_padsToTotal(left, right, totalWidth) ==
    LET rightLen == Len(right)
        leftWidth == totalWidth - rightLen
    IN IF leftWidth <= 0 THEN left \o right
       ELSE leftRightLines(SplitLF(wrapText(left, leftWidth)), 1, totalWidth, right)

\* leftRightTextWrapped(left, right, totalWidth)
leftRightTextWrapped(left, right, totalWidth) ==
    LET rightLen == Len(right)
        leftWidth == totalWidth - rightLen
    IN IF leftWidth <= 0 THEN left \o right
       ELSE leftRightLines(SplitLF(wrapText(left, leftWidth)), 1, leftWidth, right)

\* dottedLineLocal(width), for width >= 0 (a negative count makes repeat throw).
dottedLineLocal(width) == Repeat(Ord("."), width) \o <<LF>>

\* leftRightText(left, right, totalWidth) of app.js and escpos-commands.ts.
leftRightText(left, right, totalWidth) ==
    LET spacesCount == totalWidth - Len(left) - Len(right)
        spaces == IF spacesCount > 0 THEN Repeat(SP, spacesCount) ELSE <<>>
    IN left \o spaces \o right

----------------------------------------------------------------------------
(* Command codec (escpos-commands.ts, the module formatInvoice imports).   *)

ESC == 27
GS == 29

\* String.fromCharCode(n): the code unit n modulo 2^16.
fromCharCode(n) == <<n % 65536>>

\* setTextSize(level) of escpos-commands.ts
setTextSize(level) ==
    IF level = 1 THEN <<GS, 33, 17>>          \* '\x1D\x21\x11'
    ELSE IF level = 2 THEN <<GS, 33, 34>>     \* '\x1D\x21\x22'
    ELSE <<GS, 33, 0>>                        \* '\x1D\x21\x00'

\* setTextSize(level) of app.js
setTextSize_appjs(level) ==
    IF level <= 1 THEN <<GS, 33, 17>>         \* '\x1D\x21\x11'
    ELSE IF level = 2 THEN <<GS, 33, 34>>     \* '\x1D\x21\x22'
    ELSE <<GS, 33, 0>>                        \* '\x1D\x21\x00'

\* reset(): ESC @
reset == <<ESC, 64>>

\* boldText(): ESC E 1
boldText == <<ESC, 69, 1>>

\* centerText(): ESC a 1
centerText == <<ESC, 97, 1>>

\* addBreaks(n): ESC d n
addBreaks(n) == <<ESC, 100>> \o fromCharCode(n)

\* printQRCode without the lower clamp of the module size.
printQRCode_noLowerClamp(data, moduleSize) ==
    LET size == Min(moduleSize, 8)
        modelCommand == <<GS, 40, 107, 4, 0, 49, 65, 50, 0>>
        sizeCommand == <<GS, 40, 107, 3, 0, 49, 67>> \o fromCharCode(size)
        errorCommand == <<GS, 40, 107, 3, 0, 49, 69>> \o fromCharCode(51)
        storeLen == Len(data) + 3
        pL == fromCharCode(storeLen % 256)
        pH == fromCharCode((storeLen \div 256) % 256)
        storeCommand == <<GS, 40, 107>> \o pL \o pH \o <<49, 80, 48>> \o data
        printCommand == <<GS, 40, 107, 3, 0, 49, 81, 48>>
        centerOn == <<ESC, 97>> \o fromCharCode(1)
        centerOff == <<ESC, 97>> \o fromCharCode(0)
    IN centerOn \o modelCommand \o sizeCommand \o errorCommand
           \o storeCommand \o printCommand \o centerOff

\* printQRCode ending with center alignment on.
printQRCode_restoresCenter(data, moduleSize) ==
    LET size == Max(1, Min(moduleSize, 8))
        modelCommand == <<GS, 40, 107, 4, 0, 49, 65, 50, 0>>
        sizeCommand == <<GS, 40, 107, 3, 0, 49, 67>> \o fromCharCode(size)
        errorCommand == <<GS, 40, 107, 3, 0, 49, 69>> \o fromCharCode(51)
        storeLen == Len(data) + 3
        pL == fromCharCode(storeLen % 256)
        pH == fromCharCode((storeLen \div 256) % 256)
        storeCommand == <<GS, 40, 107>> \o pL \o pH \o <<49, 80, 48>> \o data
        printCommand == <<GS, 40, 107, 3, 0, 49, 81, 48>>
        centerOn == <<ESC, 97>> \o fromCharCode(1)
        centerOff == <<ESC, 97>> \o fromCharCode(0)
    IN centerOn \o modelCommand \o sizeCommand \o errorCommand
           \o storeCommand \o printCommand \o centerOn

\* printQRCode(data, moduleSize) of escpos-commands.ts, for a string data and
\* an integer moduleSize.
printQRCode(data, moduleSize) ==
    LET size == Max(1, Min(moduleSize, 8))
        modelCommand == <<GS, 40, 107, 4, 0, 49, 65, 50, 0>>
        sizeCommand == <<GS, 40, 107, 3, 0, 49, 67>> \o fromCharCode(size)
        errorCommand == <<GS, 40, 107, 3, 0, 49, 69>> \o fromCharCode(51)
        storeLen == Len(data) + 3
        pL == fromCharCode(storeLen % 256)
        pH == fromCharCode((storeLen \div 256) % 256)
        storeCommand == <<GS, 40, 107>> \o pL \o pH \o <<49, 80, 48>> \o data
        printCommand == <<GS, 40, 107, 3, 0, 49, 81, 48>>
        centerOn == <<ESC, 97>> \o fromCharCode(1)
        centerOff == <<ESC, 97>> \o fromCharCode(0)
    IN centerOn \o modelCommand \o sizeCommand \o errorCommand
           \o storeCommand \o printCommand \o centerOff

\* printQRCode(data, moduleSize) of app.js: error correction byte 48.
printQRCode_appjs(data, moduleSize) ==
    LET size == Max(1, Min(moduleSize, 8))
        modelCommand == <<GS, 40, 107, 4, 0, 49, 65, 50, 0>>
        sizeCommand == <<GS, 40, 107, 3, 0, 49, 67>> \o fromCharCode(size)
        errorCommand == <<GS, 40, 107, 3, 0, 49, 69>> \o fromCharCode(48)
        storeLen == Len(data) + 3
        pL == fromCharCode(storeLen % 256)
        pH == fromCharCode((storeLen \div 256) % 256)
        storeCommand == <<GS, 40, 107>> \o pL \o pH \o <<49, 80, 48>> \o data
        printCommand == <<GS, 40, 107, 3, 0, 49, 81, 48>>
        centerOn == <<ESC, 97>> \o fromCharCode(1)
        centerOff == <<ESC, 97>> \o fromCharCode(0)
    IN centerOn \o modelCommand \o sizeCommand \o errorCommand
           \o storeCommand \o printCommand \o centerOff

----------------------------------------------------------------------------
(* JavaScript values, as the JSON body of a request decodes to them.       *)
(* Numbers are integers; an object holds every field the renderer reads,   *)
(* an absent one as undefined.                                             *)

Undefined == [t |-> "undefined"]
Null == [t |-> "null"]
JStr(s) == [t |-> "string", s |-> s]
JNum(n) == [t |-> "number", n |-> n]
JArr(items) == [t |-> "array", items |-> items]
JObj(fields) == [t |-> "object", f |-> fields]

\* typeof v
TypeOf(v) ==
    CASE v.t = "undefined" -> "undefined"
      [] v.t = "string" -> "string"
      [] v.t = "number" -> "number"
      [] OTHER -> "object"          \* null, arrays and objects

\* Boolean(v): what `if (v)`, `!v` and `v || d` test
Truthy(v) ==
    CASE v.t = "undefined" -> FALSE
      [] v.t = "null" -> FALSE
      [] v.t = "string" -> Len(v.s) > 0
      [] v.t = "number" -> v.n # 0
      [] OTHER -> TRUE

\* v != null
NotNullish(v) == v.t \notin {"undefined", "null"}

\* Reading property name of v succeeds (it throws a TypeError on null and undefined).
CanRead(v) == v.t \notin {"undefined", "null"}

\* v[name], for a v whose properties can be read.
Get(v, name) ==
    IF v.t = "object" /\ name \in DOMAIN v.f THEN v.f[name] ELSE Undefined

\* The decimal digits of a natural number.
RECURSIVE Digits(_)
Digits(n) == IF n < 10 THEN <<48 + n>> ELSE Digits(n \div 10) \o <<48 + (n % 10)>>

\* Number.prototype.toString() of an integer.
NumToString(n) == IF n < 0 THEN <<45>> \o Digits(-n) ELSE Digits(n)

\* Number.prototype.toFixed(2) of an integer.
ToFixed2(n) == NumToString(n) \o <<46, 48, 48>>

\* String(v), as string concatenation and template literals convert v.
ToStr(v) ==
    CASE v.t = "string" -> v.s
      [] v.t = "number" -> NumToString(v.n)
      [] v.t = "undefined" -> Str(<<"u","n","d","e","f","i","n","e","d">>)
      [] v.t = "null" -> Str(<<"n","u","l","l">>)
      [] v.t = "array" -> <<>>        \* only the empty array is modelled
      [] OTHER -> Str(<<"[","o","b","j","e","c","t"," ","O","b","j","e","c","t","]">>)

----------------------------------------------------------------------------
(* Outcomes of a call: it returns a string, throws, or never ends.         *)

Returns(s) == [kind |-> "return", out |-> s, err |-> "none"]
Throws(e) == [kind |-> "throw", out |-> <<>>, err |-> e]
Diverges == [kind |-> "diverge", out |-> <<>>, err |-> "none"]

\* commands += r, when evaluating r is the next thing the function does.
Then(acc, r) ==
    IF acc.kind # "return" THEN acc
    ELSE IF r.kind # "return" THEN r
    ELSE Returns(acc.out \o r.out)

\* The statements of a function body in order: each appends to commands.
RECURSIVE Seqn(_)
Seqn(rs) ==
    IF Len(rs) = 0 THEN Returns(<<>>)
    ELSE Then(Seqn(SubSeq(rs, 1, Len(rs) - 1)), rs[Len(rs)])

\* Nothing is appended.
Skip == Returns(<<>>)

\* wrapText(text, width) + "\n" for a JavaScript value text: a non-string has
\* no length, so the loop is not entered and the value is converted.
wrapTextLine(v, width) ==
    IF v.t # "string" THEN Returns(ToStr(v) \o <<LF>>)
    ELSE IF wrapTextTerminates(v.s, width) THEN Returns(wrapText(v.s, width) \o <<LF>>)
    ELSE Diverges

\* centerWrap(text, width) + "\n" for a string text; repeat throws on a
\* negative count.
centerWrapLine(text, width) ==
    IF ~wrapTextTerminates(text, width) THEN Diverges
    ELSE IF \E i \in 1..Len(SplitLF(wrapText(text, width))) :
                (width - Len(SplitLF(wrapText(text, width))[i])) \div 2 < 0
    THEN Throws("RangeError")
    ELSE Returns(centerWrap(text, width) \o <<LF>>)

\* leftRightTextWrapped(left, right, width) + "\n"
leftRightLine(left, right, width) ==
    IF width - Len(right) > 0 /\ ~wrapTextTerminates(left, width - Len(right))
    THEN Diverges
    ELSE Returns(leftRightTextWrapped(left, right, width) \o <<LF>>)

\* commands += dottedLineLocal(width)
dottedLine(width) ==
    IF width < 0 THEN Throws("RangeError") ELSE Returns(dottedLineLocal(width))

----------------------------------------------------------------------------
(* Invoice renderer (BluetoothDeviceSelector.tsx 183-330).                 *)

\* The text literals of formatInvoice.
LblNrFatures == Str(<<"N","r","."," ","F","a","t","u","r","e","s",":"," ">>)   \* "Nr. Fatures: "
LblNjesia == Str(<<"N","j","e","s","i","a"," ","e"," ","B","i","z","n","e","s","i","t",":"," ">>)   \* "Njesia e Biznesit: "
LblKodiOperatorit == Str(<<"K","o","d","i"," ","O","p","e","r","a","t","o","r","i","t",":"," ">>)   \* "Kodi Operatorit: "
LblData == Str(<<"D","a","t","a",":"," ">>)   \* "Data: "
LblPeriudha == Str(<<"P","e","r","i","u","d","h","a"," ","e"," ","f","a","t","u","r","i","m","i","t",":"," ">>)   \* "Periudha e faturimit: "
LblTaxPoint == Str(<<"T","a","x"," ","p","o","i","n","t"," ","d","a","t","e",":"," ">>)   \* "Tax point date: "
LblShumaPaTvsh == Str(<<"S","H","U","M","A"," ","P","A"," ","T","V","S","H">>)   \* "SHUMA PA TVSH"
LblZbritja == Str(<<"Z","B","R","I","T","J","A"," ","T","O","T","A","L","E">>)   \* "ZBRITJA TOTALE"
LblTvsh == Str(<<"T","V","S","H"," ">>)   \* "TVSH "
LblShumaLeke == Str(<<"S","H","U","M","A"," ","L","e","k","e">>)   \* "SHUMA Leke"
LblIIC == Str(<<"I","I","C",":">>)   \* "IIC:"
LblFIC == Str(<<"F","I","C",":">>)   \* "FIC:"
LblEIC == Str(<<"E","I","C",":">>)   \* "EIC:"

DefaultWidth == 48
DefaultQrSize == 7

\* HeaderSection without its resets: the style of the header stays on.
HeaderSection_keepsStyle(invoice, width) ==
    Seqn(<<
        Returns(centerText),
        IF Truthy(Get(invoice, "header"))
            THEN wrapTextLine(Get(invoice, "header"), width) ELSE Skip,
        IF Truthy(Get(invoice, "tin"))
            THEN wrapTextLine(Get(invoice, "tin"), width) ELSE Skip,
        IF Truthy(Get(invoice, "address"))
            THEN wrapTextLine(Get(invoice, "address"), width) ELSE Skip,
        IF Truthy(Get(invoice, "invoiceType"))
            THEN Returns(boldText \o setTextSize(1)
                         \o ToStr(Get(invoice, "invoiceType")) \o <<LF>>)
            ELSE Skip
    >>)

\* Lines 192-211: the centered header block.
HeaderSection(invoice, width) ==
    Seqn(<<
        Returns(centerText),
        IF Truthy(Get(invoice, "header"))
            THEN wrapTextLine(Get(invoice, "header"), width) ELSE Skip,
        IF Truthy(Get(invoice, "tin"))
            THEN wrapTextLine(Get(invoice, "tin"), width) ELSE Skip,
        IF Truthy(Get(invoice, "address"))
            THEN wrapTextLine(Get(invoice, "address"), width) ELSE Skip,
        IF Truthy(Get(invoice, "invoiceType"))
            THEN Returns(boldText \o setTextSize(1)
                         \o ToStr(Get(invoice, "invoiceType")) \o <<LF>> \o reset)
            ELSE Skip,
        Returns(reset)
    >>)

\* One labelled metadata line, printed when the field is not null/undefined.
Labelled(label, v, width) ==
    IF NotNullish(v) THEN wrapTextLine(JStr(label \o ToStr(v)), width) ELSE Skip

\* Lines 213-235: the invoice details and the first dotted separator.
DetailsSection(invoice, width) ==
    Seqn(<<
        Labelled(LblNrFatures, Get(invoice, "invNumber"), width),
        IF NotNullish(Get(invoice, "fiscString"))
            THEN wrapTextLine(Get(invoice, "fiscString"), width) ELSE Skip,
        Labelled(LblNjesia, Get(invoice, "buCode"), width),
        Labelled(LblKodiOperatorit, Get(invoice, "opCode"), width),
        Labelled(LblData, Get(invoice, "Date"), width),
        Labelled(LblPeriudha, Get(invoice, "FiscDateRange"), width),
        Labelled(LblTaxPoint, Get(invoice, "TaxPointDate"), width),
        dottedLine(width)
    >>)

\* ProductLine taking a quantity or price of 0 for an absent one.
ProductLine_zeroIsAbsent(line, width) ==
    IF ~CanRead(line) THEN Throws("TypeError")
    ELSE IF Truthy(Get(line, "quantity")) /\ Truthy(Get(line, "price"))
    THEN LET uom == IF NotNullish(Get(line, "uom"))
                    THEN ToStr(Get(line, "uom")) ELSE <<>>
             leftText == ToStr(Get(line, "quantity")) \o <<SP, SP>> \o uom
                            \o <<SP, SP, 120, SP>>
                            \o ToFixed2(Get(line, "price").n) \o <<76>>
             productName == IF NotNullish(Get(line, "productName"))
                            THEN ToStr(Get(line, "productName")) ELSE <<>>
             fullPrice == IF NotNullish(Get(line, "fullPrice"))
                          THEN Get(line, "fullPrice").n ELSE 0
         IN Seqn(<<
                IF NotNullish(Get(line, "fullPrice"))
                    THEN leftRightLine(leftText,
                             ToFixed2(Get(line, "fullPrice").n) \o <<76>>, width)
                    ELSE wrapTextLine(JStr(leftText), width),
                IF NotNullish(Get(line, "discountAmount"))
                    THEN LET discountAmount == Get(line, "discountAmount").n
                             afterDiscount == fullPrice - discountAmount
                             rightDiscount == <<SP, 45>> \o NumToString(discountAmount)
                                                 \o <<76, SP>>
                                                 \o NumToString(afterDiscount) \o <<76>>
                         IN leftRightLine(productName, rightDiscount, width)
                    ELSE leftRightLine(productName, <<>>, width)
              >>)
    ELSE Skip

\* ProductLine clamping the after-discount amount at zero.
ProductLine_clampsDiscount(line, width) ==
    IF ~CanRead(line) THEN Throws("TypeError")
    ELSE IF NotNullish(Get(line, "quantity")) /\ NotNullish(Get(line, "price"))
    THEN LET uom == IF NotNullish(Get(line, "uom"))
                    THEN ToStr(Get(line, "uom")) ELSE <<>>
             leftText == ToStr(Get(line, "quantity")) \o <<SP, SP>> \o uom
                            \o <<SP, SP, 120, SP>>
                            \o ToFixed2(Get(line, "price").n) \o <<76>>
             productName == IF NotNullish(Get(line, "productName"))
                            THEN ToStr(Get(line, "productName")) ELSE <<>>
             fullPrice == IF NotNullish(Get(line, "fullPrice"))
                          THEN Get(line, "fullPrice").n ELSE 0
         IN Seqn(<<
                IF NotNullish(Get(line, "fullPrice"))
                    THEN leftRightLine(leftText,
                             ToFixed2(Get(line, "fullPrice").n) \o <<76>>, width)
                    ELSE wrapTextLine(JStr(leftText), width),
                IF NotNullish(Get(line, "discountAmount"))
                    THEN LET discountAmount == Get(line, "discountAmount").n
                             afterDiscount == Max(0, fullPrice - discountAmount)
                             rightDiscount == <<SP, 45>> \o NumToString(discountAmount)
                                                 \o <<76, SP>>
                                                 \o NumToString(afterDiscount) \o <<76>>
                         IN leftRightLine(productName, rightDiscount, width)
                    ELSE leftRightLine(productName, <<>>, width)
              >>)
    ELSE Skip

\* Lines 240-257: the forEach callback of the products section.
ProductLine(line, width) ==
    IF ~CanRead(line) THEN Throws("TypeError")
    ELSE IF NotNullish(Get(line, "quantity")) /\ NotNullish(Get(line, "price"))
    THEN LET uom == IF NotNullish(Get(line, "uom"))
                    THEN ToStr(Get(line, "uom")) ELSE <<>>
             leftText == ToStr(Get(line, "quantity")) \o <<SP, SP>> \o uom
                            \o <<SP, SP, 120, SP>>
                            \o ToFixed2(Get(line, "price").n) \o <<76>>
             productName == IF NotNullish(Get(line, "productName"))
                            THEN ToStr(Get(line, "productName")) ELSE <<>>
             fullPrice == IF NotNullish(Get(line, "fullPrice"))
                          THEN Get(line, "fullPrice").n ELSE 0
         IN Seqn(<<
                IF NotNullish(Get(line, "fullPrice"))
                    THEN leftRightLine(leftText,
                             ToFixed2(Get(line, "fullPrice").n) \o <<76>>, width)
                    ELSE wrapTextLine(JStr(leftText), width),
                IF NotNullish(Get(line, "discountAmount"))
                    THEN LET discountAmount == Get(line, "discountAmount").n
                             afterDiscount == fullPrice - discountAmount
                             rightDiscount == <<SP, 45>> \o NumToString(discountAmount)
                                                 \o <<76, SP>>
                                                 \o NumToString(afterDiscount) \o <<76>>
                         IN leftRightLine(productName, rightDiscount, width)
                    ELSE leftRightLine(productName, <<>>, width)
              >>)
    ELSE Skip

\* invoice.lines.forEach(...): the callback on each element in order.
RECURSIVE ProductLines(_, _)
ProductLines(items, width) ==
    IF Len(items) = 0 THEN Skip
    ELSE Then(ProductLines(SubSeq(items, 1, Len(items) - 1), width),
              ProductLine(items[Len(items)], width))

\* Lines 237-260: the products section and the second dotted separator.
ProductsSection(invoice, width) ==
    LET lines == Get(invoice, "lines")
    IN IF lines.t = "array" /\ Len(lines.items) > 0
       THEN Then(ProductLines(lines.items, width), dottedLine(width))
       ELSE Skip

\* Lines 276-281: the forEach callback of the VAT section.
VatLine(vatItem, width) ==
    IF ~CanRead(vatItem) THEN Throws("TypeError")
    ELSE IF NotNullish(Get(vatItem, "vatType")) /\ NotNullish(Get(vatItem, "amount"))
    THEN leftRightLine(LblTvsh \o ToStr(Get(vatItem, "vatType")),
                       ToStr(Get(vatItem, "amount")) \o <<76>>, width)
    ELSE Skip

\* invoice.vat.forEach(...): the callback on each element in order.
RECURSIVE VatLines(_, _)
VatLines(items, width) ==
    IF Len(items) = 0 THEN Skip
    ELSE Then(VatLines(SubSeq(items, 1, Len(items) - 1), width),
              VatLine(items[Len(items)], width))

\* Lines 262-293: totals, VAT lines, the grand total in bold, and the reset.
TotalsSection(invoice, width) ==
    LET vat == Get(invoice, "vat")
    IN Seqn(<<
        IF NotNullish(Get(invoice, "totalPriceNoVat"))
            THEN leftRightLine(LblShumaPaTvsh,
                     ToStr(Get(invoice, "totalPriceNoVat")) \o <<76>>, width)
            ELSE Skip,
        IF NotNullish(Get(invoice, "totalDiscount"))
            THEN leftRightLine(LblZbritja,
                     ToStr(Get(invoice, "totalDiscount")) \o <<76>>, width)
            ELSE Skip,
        IF vat.t = "array" /\ Len(vat.items) > 0
            THEN VatLines(vat.items, width) ELSE Skip,
        IF NotNullish(Get(invoice, "totalPrice"))
            THEN Seqn(<<Returns(boldText),
                        leftRightLine(LblShumaLeke,
                            ToStr(Get(invoice, "totalPrice")) \o <<76>>, width),
                        Returns(reset)>>)
            ELSE Skip,
        Returns(reset)
    >>)

\* (v ? "\n" + v : "") of the customer block
OnNewLine(v) == IF Truthy(v) THEN <<LF>> \o ToStr(v) ELSE <<>>

\* Lines 295-304: the centered customer block, a reset and a one-line feed.
CustomerSection(invoice, width) ==
    LET name == IF Truthy(Get(invoice, "CustomerName"))
                THEN ToStr(Get(invoice, "CustomerName")) ELSE <<>>
        text == name \o OnNewLine(Get(invoice, "CustomerTin"))
                     \o OnNewLine(Get(invoice, "CustomerContact"))
                     \o OnNewLine(Get(invoice, "CustomerAddress"))
    IN Seqn(<<centerWrapLine(text, width), Returns(reset), Returns(addBreaks(1))>>)

\* A centered line of a fiscal code or of the footer, printed when truthy.
CenteredIf(label, v, width) ==
    IF Truthy(v) THEN centerWrapLine(label \o ToStr(v), width) ELSE Skip

\* Lines 306-329: the QR code, the fiscal codes, the footer, the last feed.
TrailerSection(invoice, width) ==
    Seqn(<<
        IF Truthy(Get(invoice, "qrCode"))
            THEN LET qrSize == IF NotNullish(Get(invoice, "qrSize"))
                               THEN Get(invoice, "qrSize").n ELSE DefaultQrSize
                 IN Returns(printQRCode(ToStr(Get(invoice, "qrCode")), qrSize))
            ELSE Skip,
        CenteredIf(LblIIC, Get(invoice, "IIC"), width),
        CenteredIf(LblFIC, Get(invoice, "FIC"), width),
        CenteredIf(LblEIC, Get(invoice, "EIC"), width),
        CenteredIf(<<>>, Get(invoice, "Footer"), width),
        Returns(addBreaks(4))
    >>)

\* formatInvoice with the customer block put before the totals.
formatInvoice_customerBeforeTotals(invoice, printerWidth) ==
    IF ~Truthy(invoice) \/ TypeOf(invoice) # "object"
    THEN Returns(<<>>)
    ELSE LET width == IF Truthy(printerWidth) THEN printerWidth.n ELSE DefaultWidth
         IN Seqn(<<HeaderSection(invoice, width),
                   DetailsSection(invoice, width),
                   ProductsSection(invoice, width),
                   CustomerSection(invoice, width),
                   TotalsSection(invoice, width),
                   TrailerSection(invoice, width)>>)

\* formatInvoice(invoice, printerWidth), printerWidth a number or undefined.
formatInvoice(invoice, printerWidth) ==
    IF ~Truthy(invoice) \/ TypeOf(invoice) # "object"
    THEN Returns(<<>>)
    ELSE LET width == IF Truthy(printerWidth) THEN printerWidth.n ELSE DefaultWidth
         IN Seqn(<<HeaderSection(invoice, width),
                   DetailsSection(invoice, width),
                   ProductsSection(invoice, width),
                   TotalsSection(invoice, width),
                   CustomerSection(invoice, width),
                   TrailerSection(invoice, width)>>)

----------------------------------------------------------------------------
(* Inputs of the layout calls.                                             *)

\* All strings over alphabet of length at most n.
RECURSIVE StringsUpTo(_, _)
StringsUpTo(alphabet, n) ==
    IF n = 0 THEN {<<>>}
    ELSE LET shorter == StringsUpTo(alphabet, n - 1)
         IN shorter \cup {Append(s, c) : s \in {t \in shorter : Len(t) = n - 1},
                                         c \in alphabet}

\* A text of n distinct-looking characters, with a line break at position nl (0: none).
PatternText(n, nl) ==
    [i \in 1..n |-> IF i = nl THEN LF ELSE 97 + (i % 7)]

SmallLefts == StringsUpTo({97, 98, LF}, MaxLeftLen)
SmallRights == {Repeat(88, n) : n \in 0..MaxRightLen} \cup {<<88, LF, 89>>}
SmallWidths == 1..MaxSmallWidth
WideWidths == 8..80

\* The application before any connection: no data event has arrived.
ServerIdle ==
    /\ variant = "BLE"
    /\ connectedDeviceRef = FALSE
    /\ currentCandidateRef = FALSE
    /\ printerWidthRef = Str(<<"4", "8">>)
    /\ reqs = <<>>
    /\ wire = <<>>
    /\ writes = <<>>
    /\ hung = FALSE

LayoutIdle ==
    /\ lop = "none"
    /\ ltext = <<>>
    /\ lright = <<>>
    /\ lwidth = 0
    /\ lout = <<>>

LayoutInit ==
    /\ lop = "none"
    /\ lout = <<>>
    /\ rinvoice = Undefined
    /\ rwidth = Undefined
    /\ rcall = "idle"
    /\ rout = <<>>
    /\ rerr = "none"
    /\ ServerIdle
    /\ \/ /\ lwidth \in SmallWidths
          /\ ltext \in SmallLefts
          /\ lright \in SmallRights
       \/ /\ lwidth \in WideWidths
          /\ \E n \in 1..MaxTextLen, nl \in {0, 3} :
                 /\ n > lwidth - 3
                 /\ ltext = PatternText(n, nl)
          /\ lright \in {<<>>, <<88, 89>>}

CallWrapText ==
    /\ lop = "none"
    /\ wrapTextTerminates(ltext, lwidth)
    /\ lop' = "wrapText"
    /\ lout' = wrapText(ltext, lwidth)
    /\ UNCHANGED <<ltext, lright, lwidth>>
    /\ UNCHANGED renderVars
    /\ UNCHANGED serverVars

CallCenterWrap ==
    /\ lop = "none"
    /\ wrapTextTerminates(ltext, lwidth)
    /\ lop' = "centerWrap"
    /\ lout' = centerWrap(ltext, lwidth)
    /\ UNCHANGED <<ltext, lright, lwidth>>
    /\ UNCHANGED renderVars
    /\ UNCHANGED serverVars

CallLeftRightTextWrapped ==
    /\ lop = "none"
    /\ lop' = "leftRightTextWrapped"
    /\ lout' = leftRightTextWrapped(ltext, lright, lwidth)
    /\ UNCHANGED <<ltext, lright, lwidth>>
    /\ UNCHANGED renderVars
    /\ UNCHANGED serverVars

CallLeftRightText ==
    /\ lop = "none"
    /\ lop' = "leftRightText"
    /\ lout' = leftRightText(ltext, lright, lwidth)
    /\ UNCHANGED <<ltext, lright, lwidth>>
    /\ UNCHANGED renderVars
    /\ UNCHANGED serverVars

LayoutNext ==
    \/ CallWrapText
    \/ CallCenterWrap
    \/ CallLeftRightTextWrapped
    \/ CallLeftRightText

SpecLayout == LayoutInit /\ [][LayoutNext]_vars

----------------------------------------------------------------------------
(* Calls of the command codec.                                             *)

MaxPayloadLen == 65533
MinModuleSize == -3
MaxModuleSize == 20

\* Payload lengths: short ones, those around the first carry into the high
\* length byte, and the longest.
PayloadLengths == {0, 1, 2, 252, 253, 254, MaxPayloadLen - 1, MaxPayloadLen}

QrPayloads == {Repeat(65, n) : n \in PayloadLengths} \cup {<<104, 116, 116, 112, 58, 47, 47, 97>>}

ModuleSizes == MinModuleSize..MaxModuleSize

\* The call variables hold the payload (ltext) and the module size (lwidth).
CodecInit ==
    /\ lop = "none"
    /\ ltext \in QrPayloads
    /\ lright = <<>>
    /\ lwidth \in ModuleSizes
    /\ lout = <<>>
    /\ rinvoice = Undefined
    /\ rwidth = Undefined
    /\ rcall = "idle"
    /\ rout = <<>>
    /\ rerr = "none"
    /\ ServerIdle

CallPrintQRCode ==
    /\ lop = "none"
    /\ lop' = "printQRCode"
    /\ lout' = printQRCode(ltext, lwidth)
    /\ UNCHANGED <<ltext, lright, lwidth>>
    /\ UNCHANGED renderVars
    /\ UNCHANGED serverVars

CallPrintQRCodeAppJs ==
    /\ lop = "none"
    /\ lop' = "printQRCode_appjs"
    /\ lout' = printQRCode_appjs(ltext, lwidth)
    /\ UNCHANGED <<ltext, lright, lwidth>>
    /\ UNCHANGED renderVars
    /\ UNCHANGED serverVars

\* setTextSize(lwidth): the level is the integer of the call variables.
CallSetTextSize ==
    /\ lop = "none"
    /\ lop' = "setTextSize"
    /\ lout' = setTextSize(lwidth)
    /\ UNCHANGED <<ltext, lright, lwidth>>
    /\ UNCHANGED renderVars
    /\ UNCHANGED serverVars

CallSetTextSizeAppJs ==
    /\ lop = "none"
    /\ lop' = "setTextSize_appjs"
    /\ lout' = setTextSize_appjs(lwidth)
    /\ UNCHANGED <<ltext, lright, lwidth>>
    /\ UNCHANGED renderVars
    /\ UNCHANGED serverVars

CodecNext ==
    \/ CallPrintQRCode
    \/ CallPrintQRCodeAppJs
    \/ CallSetTextSize
    \/ CallSetTextSizeAppJs

SpecCodec == CodecInit /\ [][CodecNext]_vars

----------------------------------------------------------------------------
(* Inputs of the renderer.                                                 *)

\* The fields formatInvoice reads, in the order it reads them.
FieldOrder ==
    <<"header", "tin", "address", "invoiceType",
      "invNumber", "fiscString", "buCode", "opCode", "Date", "FiscDateRange",
      "TaxPointDate", "lines", "totalPriceNoVat", "totalDiscount", "vat",
      "totalPrice", "CustomerName", "CustomerTin", "CustomerContact",
      "CustomerAddress", "qrCode", "qrSize", "IIC", "FIC", "EIC", "Footer">>

Fields == {FieldOrder[i] : i \in 1..Len(FieldOrder)}

IndexOf(f) == CHOOSE i \in 1..Len(FieldOrder) : FieldOrder[i] = f

\* Free-text fields get a sample value that starts with a character of their
\* own (a Latin-1 letter from 200 on), so that their place in the output shows.
MarkerBase == 200
Marker(f) == MarkerBase + IndexOf(f)
ItemNameMarker(k) == MarkerBase + 30 + k
ItemUomMarker(k) == MarkerBase + 40 + k
VatMarker(k) == MarkerBase + 50 + k

\* Line item k: quantity 1, price 2, full price 3; the odd ones carry a discount.
SampleLine(k) ==
    JObj([productName |-> JStr(<<ItemNameMarker(k), 35>>),
          quantity |-> JNum(1),
          price |-> JNum(2),
          fullPrice |-> JNum(3),
          discountAmount |-> IF k % 2 = 1 THEN JNum(1) ELSE Undefined,
          uom |-> JStr(<<ItemUomMarker(k)>>)])

SampleVat(k) == JObj([vatType |-> JStr(<<VatMarker(k), 35>>), amount |-> JNum(4)])

Sample(f) ==
    CASE f = "lines" -> JArr(<<SampleLine(1), SampleLine(2)>>)
      [] f = "vat" -> JArr(<<SampleVat(1), SampleVat(2)>>)
      [] f = "totalPriceNoVat" -> JNum(5)
      [] f = "totalDiscount" -> JNum(6)
      [] f = "totalPrice" -> JNum(7)
      [] f = "qrSize" -> JNum(8)
      [] OTHER -> JStr(<<Marker(f), 35>>)

\* The invoice whose present fields are those of S, each with its sample value.
SampleInvoice(S) == JObj([f \in Fields |-> IF f \in S THEN Sample(f) ELSE Undefined])

EmptyInvoice == SampleInvoice({})
FullInvoice == SampleInvoice(Fields)

\* The subsets of Fields of at most k elements.
RECURSIVE FieldSetsUpTo(_)
FieldSetsUpTo(k) ==
    IF k = 0 THEN {{}}
    ELSE LET smaller == FieldSetsUpTo(k - 1)
         IN smaller \cup {s \cup {f} : s \in smaller, f \in Fields}

\* Invoices with at most MaxToggled fields present, or at most that many absent.
PresenceInvoices ==
    {SampleInvoice(S) : S \in FieldSetsUpTo(MaxToggled)}
        \cup {SampleInvoice(Fields \ S) : S \in FieldSetsUpTo(MaxToggled)}

\* Values a field may hold besides its sample: null, empty, zero, ill-typed.
OddValues(f) ==
    CASE f \in {"lines", "vat"} ->
            {Null, JStr(<<Marker(f)>>), JNum(3), JObj([length |-> JNum(1)]),
             JArr(<<>>), JArr(<<Null>>), JArr(<<Undefined>>), JArr(<<JNum(5)>>),
             JArr(<<JStr(<<Marker(f)>>)>>), JArr(<<JObj([none |-> Null])>>)}
      [] f \in {"totalPriceNoVat", "totalDiscount", "totalPrice"} ->
            {Null, JNum(0), JNum(-3), JStr(<<Marker(f)>>)}
      [] f = "qrSize" -> {Null, JNum(0), JNum(20), JNum(-1), JNum(1)}
      [] f = "qrCode" -> {Null, JStr(<<>>)}
      [] OTHER -> {Null, JStr(<<>>), JNum(0), JNum(9)}

\* Line items with one field absent, null or zero, alone and next to a sample line.
OddLines ==
    LET base == SampleLine(1).f
        odd == {JObj([base EXCEPT ![g] = v]) :
                    g \in DOMAIN base, v \in {Undefined, Null, JNum(0)}}
    IN {JArr(<<l>>) : l \in odd}
         \cup {JArr(<<SampleLine(2), l, SampleLine(3)>>) : l \in odd}
         \cup {JArr(<<SampleLine(1), Null>>), JArr(<<Null, SampleLine(1)>>)}

OddVats ==
    LET base == SampleVat(1).f
        odd == {JObj([base EXCEPT ![g] = v]) :
                    g \in DOMAIN base, v \in {Undefined, Null, JNum(0)}}
    IN {JArr(<<l>>) : l \in odd}
         \cup {JArr(<<SampleVat(2), l, SampleVat(3)>>) : l \in odd}
         \cup {JArr(<<SampleVat(1), Null>>)}

\* The empty and the full invoice with one field holding an odd value.
OddInvoices ==
    UNION {{JObj([base.f EXCEPT ![f] = v]) :
                base \in {EmptyInvoice, FullInvoice}, v \in OddValues(f)} :
           f \in Fields}
      \cup {JObj([base.f EXCEPT !["lines"] = v]) :
                base \in {EmptyInvoice, FullInvoice}, v \in OddLines}
      \cup {JObj([base.f EXCEPT !["vat"] = v]) :
                base \in {EmptyInvoice, FullInvoice}, v \in OddVats}

\* Documents that are no object, and the array, which typeof calls an object.
NonInvoices ==
    {Undefined, Null, JNum(0), JNum(5), JStr(<<>>), JStr(<<Marker("header")>>), JArr(<<>>)}

\* The customer fields, in the order the block prints them, and the invoices
\* with any combination of them present and nothing else.
CustomerFields == <<"CustomerName", "CustomerTin", "CustomerContact", "CustomerAddress">>

CustomerInvoices ==
    {SampleInvoice(S) : S \in SUBSET {CustomerFields[i] : i \in 1..Len(CustomerFields)}}

\* Invoices of one discounted line item: the full price absent, null, zero,
\* below and above the discount.
DiscountLines ==
    {JObj([SampleLine(1).f EXCEPT !["fullPrice"] = fp, !["discountAmount"] = JNum(d)]) :
        fp \in {Undefined, Null, JNum(0), JNum(3), JNum(10)}, d \in {0, 3, 5, 12}}

DiscountInvoices ==
    {JObj([EmptyInvoice.f EXCEPT !["lines"] = JArr(<<l>>)]) : l \in DiscountLines}

Invoices ==
    PresenceInvoices \cup OddInvoices \cup NonInvoices \cup CustomerInvoices
        \cup DiscountInvoices

\* The printerWidth argument: absent, zero (both give 48), narrow, and negative.
PrinterWidths == {Undefined, JNum(0), JNum(8), JNum(32), JNum(-4)}

RenderIdle ==
    /\ rcall = "idle"
    /\ rout = <<>>
    /\ rerr = "none"

RenderInit ==
    /\ LayoutIdle
    /\ rinvoice \in Invoices
    /\ rwidth \in PrinterWidths
    /\ RenderIdle
    /\ ServerIdle

\* formatInvoice(rinvoice, rwidth) is called and returns, throws or hangs.
CallFormatInvoice ==
    /\ rcall = "idle"
    /\ LET r == formatInvoice(rinvoice, rwidth)
       IN /\ rcall' = r.kind
          /\ rout' = r.out
          /\ rerr' = r.err
    /\ UNCHANGED <<rinvoice, rwidth>>
    /\ UNCHANGED layoutVars
    /\ UNCHANGED serverVars

RenderNext == CallFormatInvoice

SpecRender == RenderInit /\ [][RenderNext]_vars

----------------------------------------------------------------------------
(* Socket handler (App.tsx): the BLE component (610-1383) and the Classic  *)
(* component (1-608), one connection.                                      *)

MaxChunks == 2

CR == 13
CRLF == <<CR, LF>>

\* White space as String.prototype.trim removes it (the ASCII part).
IsSpace(c) == c \in {9, 10, 11, 12, 13, 32}

\* s.trim()
Trim(s) ==
    LET ink == {i \in 1..Len(s) : ~IsSpace(s[i])}
    IN IF ink = {} THEN <<>>
       ELSE SubSeq(s, CHOOSE i \in ink : \A j \in ink : i <= j,
                      CHOOSE i \in ink : \A j \in ink : i >= j)

\* s.startsWith(p)
StartsWith(s, p) == Len(s) >= Len(p) /\ SubSeq(s, 1, Len(p)) = p

\* s.indexOf(p): the 0-based position of the first occurrence of p, or -1.
indexOf(s, p) ==
    LET at == {i \in 0..(Len(s) - Len(p)) : SubSeq(s, i + 1, i + Len(p)) = p}
    IN IF at = {} THEN -1 ELSE CHOOSE i \in at : \A j \in at : i <= j

\* s.slice(from) for 0 <= from
Slice(s, from) == SubSeq(s, from + 1, Len(s))

\* Buffer.from(s, 'latin1'): one byte per code unit, its low 8 bits.
Latin1(s) == [i \in 1..Len(s) |-> s[i] % 256]

\* parseInt(s, 10) || 48 for a string s of an optional sign and digits: the
\* integer it denotes, and 48 where parseInt gives NaN or 0.
RECURSIVE DigitsValue(_)
DigitsValue(s) ==
    IF Len(s) = 0 THEN 0
    ELSE 10 * DigitsValue(SubSeq(s, 1, Len(s) - 1)) + (s[Len(s)] - 48)

LeadingDigits(s) ==
    LET stop == {i \in 1..Len(s) : s[i] \notin 48..57}
    IN IF stop = {} THEN s
       ELSE SubSeq(s, 1, (CHOOSE i \in stop : \A j \in stop : i <= j) - 1)

parseIntOr48(s) ==
    LET t == Trim(s)
        neg == Len(t) > 0 /\ t[1] = 45
        ds == LeadingDigits(IF neg THEN Tail(t) ELSE t)
        n == IF neg THEN 0 - DigitsValue(ds) ELSE DigitsValue(ds)
    IN IF Len(ds) = 0 \/ n = 0 THEN DefaultWidth ELSE n

\* The request bodies of the model, as JSON texts.
JsonHeader == Str(<<"{", "\"", "h", "e", "a", "d", "e", "r", "\"", ":", "\"", "A", "\"", "}">>)
JsonNull == Str(<<"n", "u", "l", "l">>)
JsonNullLine ==
    Str(<<"{", "\"", "l", "i", "n", "e", "s", "\"", ":", "[", "n", "u", "l", "l", "]", "}">>)
JsonNegativeWidth ==
    Str(<<"{", "\"", "p", "r", "i", "n", "t", "e", "r", "W", "i", "d", "t", "h", "\"", ":",
          "-", "4", ",", "\"", "h", "e", "a", "d", "e", "r", "\"", ":", "\"", "A", "\"", "}">>)
JsonZeroWidth ==
    Str(<<"{", "\"", "p", "r", "i", "n", "t", "e", "r", "W", "i", "d", "t", "h", "\"", ":",
          "0", ",", "\"", "h", "e", "a", "d", "e", "r", "\"", ":", "\"", "A", "\"", "}">>)
JsonNarrowWidth ==
    Str(<<"{", "\"", "p", "r", "i", "n", "t", "e", "r", "W", "i", "d", "t", "h", "\"", ":",
          "8", ",", "\"", "h", "e", "a", "d", "e", "r", "\"", ":", "\"", "A", "\"", "}">>)
JsonBroken == Str(<<"{", "\"", "h", "e", "a", "d", "e", "r", "\"", ":">>)

\* JSON.parse(text) on the bodies of the model: the value of a JSON text,
\* a SyntaxError on any other text (the other bodies of the model are none).
JSONParse(text) ==
    CASE text = JsonHeader ->
            [ok |-> TRUE, value |-> JObj([header |-> JStr(<<65>>)])]
      [] text = JsonNull -> [ok |-> TRUE, value |-> Null]
      [] text = JsonNullLine ->
            [ok |-> TRUE, value |-> JObj([lines |-> JArr(<<Null>>)])]
      [] text = JsonNegativeWidth ->
            [ok |-> TRUE,
             value |-> JObj([printerWidth |-> JNum(-4), header |-> JStr(<<65>>)])]
      [] text = JsonZeroWidth ->
            [ok |-> TRUE,
             value |-> JObj([printerWidth |-> JNum(0), header |-> JStr(<<65>>)])]
      [] text = JsonNarrowWidth ->
            [ok |-> TRUE,
             value |-> JObj([printerWidth |-> JNum(8), header |-> JStr(<<65>>)])]
      [] OTHER -> [ok |-> FALSE, value |-> Undefined]

\* The responses, by status, declared Content-Length and body.
Response(status, declared, body) ==
    [status |-> status, declared |-> declared, body |-> body]

\* optionsResponse (both components)
optionsResponse == Response(204, 0, <<>>)

\* postResponse: the BLE component puts statusLine in front of an empty body,
\* the Classic component always answers 200 with the body "OK".
postResponse(v, status) ==
    IF v = "BLE" THEN Response(status, 0, <<>>)
    ELSE Response(200, 2, Str(<<"O", "K">>))

\* returnResponse (BLE)
returnResponse == Response(200, 0, <<>>)

\* forbiddenResponse (BLE) and defaultResponse (Classic)
forbiddenResponse == Response(403, 0, <<>>)
defaultResponse ==
    Response(200, 19,
             Str(<<"H","e","l","l","o"," ","f","r","o","m"," ","m","o","b","i","l","e","!">>))

\* The prefixes the handler tests for.
TxtOptions == Str(<<"O","P","T","I","O","N","S">>)
TxtPostPrint == Str(<<"P","O","S","T"," ","/","p","r","i","n","t">>)
TxtReturnToApp == Str(<<"P","O","S","T"," ","/","R","e","t","u","r","n","T","o","A","p","p">>)
TxtGetStatus == Str(<<"G","E","T"," ","/","s","t","a","t","u","s">>)
TxtHttp == Str(<<" ","H","T","T","P","/","1",".","1">>)

\* requestStr: the BLE component trims the chunk, the Classic one does not.
requestStr(v, data) == IF v = "BLE" THEN Trim(data) ELSE data

delimiter == CRLF \o CRLF

bodyIndex(rs) == indexOf(rs, delimiter)

\* requestStr.slice(bodyIndex + delimiter.length).trim()
bodyOf(rs) == Trim(Slice(rs, bodyIndex(rs) + Len(delimiter)))

\* The branch of the data handler a request string takes.
Route(v, rs) ==
    IF StartsWith(rs, TxtOptions) THEN "options"
    ELSE IF StartsWith(rs, TxtPostPrint) THEN
        (IF bodyIndex(rs) >= 0
         THEN (IF bodyOf(rs) # <<>> THEN "print" ELSE "noBody")
         ELSE "noDelimiter")
    ELSE IF v = "BLE" /\ StartsWith(rs, TxtReturnToApp) THEN "returnToApp"
    ELSE "unknown"

\* The handler awaits printInvoice in the BLE component (line 1002) and calls
\* it without awaiting in the Classic one (line 257).
HandlerAwaitsPrint_never(v) == FALSE

HandlerAwaitsPrint(v) == v = "BLE"

\* The connection test at the head of printInvoice.
Connected(v, device, candidate) ==
    IF v = "BLE" THEN device /\ candidate ELSE device

\* printInvoice up to its first await: not connected, the try block threw
\* (rethrown by the BLE component, only logged by the Classic one), the
\* renderer never returned, or the write was handed to the transport.
AfterFormatInvoice(v, r) ==
    CASE r.kind = "return" ->
            [kind |-> "write", rendered |-> TRUE, data |-> Latin1(r.out)]
      [] r.kind = "throw" ->
            [kind |-> IF v = "BLE" THEN "throw" ELSE "caught",
             rendered |-> TRUE, data |-> <<>>]
      [] OTHER -> [kind |-> "diverge", rendered |-> TRUE, data |-> <<>>]

\* invoice.printerWidth ?? (parseInt(printerWidthRef.current, 10) || 48) in the
\* BLE component, parseInt(printerWidthRef.current, 10) || 48 in the Classic one.
invoiceWidth(v, setting, invoice) ==
    IF v = "BLE" /\ NotNullish(Get(invoice, "printerWidth"))
    THEN Get(invoice, "printerWidth")
    ELSE JNum(parseIntOr48(setting))

printInvoice(v, connected, setting, invoice) ==
    IF ~connected
    THEN [kind |-> "notConnected", rendered |-> FALSE, data |-> <<>>]
    ELSE IF v = "BLE" /\ ~CanRead(invoice)
    THEN [kind |-> "throw", rendered |-> FALSE, data |-> <<>>]
    ELSE AfterFormatInvoice(v, formatInvoice(invoice, invoiceWidth(v, setting, invoice)))

\* What one run of the data handler does up to its return or its await.
Handled(route, decoded, rendered, hang, write, respond) ==
    [route |-> route, decoded |-> decoded, rendered |-> rendered, hang |-> hang,
     write |-> write, respond |-> respond]

\* The POST /print branch with a body.
\* AfterPrintInvoice handing the rendered bytes to the transport twice.
AfterPrintInvoice_writesTwice(v, p) ==
    CASE p.kind = "notConnected" ->
            Handled("print", TRUE, FALSE, FALSE, <<>>, <<postResponse(v, 200)>>)
      [] p.kind = "throw" ->
            Handled("print", TRUE, p.rendered, FALSE, <<>>, <<postResponse(v, 500)>>)
      [] p.kind = "caught" ->
            Handled("print", TRUE, p.rendered, FALSE, <<>>, <<postResponse(v, 200)>>)
      [] p.kind = "diverge" ->
            Handled("print", TRUE, TRUE, TRUE, <<>>, <<>>)
      [] OTHER ->
            Handled("print", TRUE, TRUE, FALSE, <<p.data, p.data>>,
                    IF HandlerAwaitsPrint(v) THEN <<>>
                    ELSE <<postResponse(v, 200)>>)

\* The handler after its call of printInvoice(invoice) ended as p tells.
AfterPrintInvoice(v, p) ==
    CASE p.kind = "notConnected" ->
            Handled("print", TRUE, FALSE, FALSE, <<>>, <<postResponse(v, 200)>>)
      [] p.kind = "throw" ->
            Handled("print", TRUE, p.rendered, FALSE, <<>>, <<postResponse(v, 500)>>)
      [] p.kind = "caught" ->
            Handled("print", TRUE, p.rendered, FALSE, <<>>, <<postResponse(v, 200)>>)
      [] p.kind = "diverge" ->
            Handled("print", TRUE, TRUE, TRUE, <<>>, <<>>)
      [] OTHER ->
            Handled("print", TRUE, TRUE, FALSE, <<p.data>>,
                    IF HandlerAwaitsPrint(v) THEN <<>>
                    ELSE <<postResponse(v, 200)>>)

\* The try block around JSON.parse(body) and printInvoice(invoice).
AfterParse(v, connected, setting, parsed) ==
    IF ~parsed.ok
    THEN Handled("print", FALSE, FALSE, FALSE, <<>>, <<postResponse(v, 500)>>)
    ELSE AfterPrintInvoice(v, printInvoice(v, connected, setting, parsed.value))

HandlePrint(v, connected, setting, rs) ==
    AfterParse(v, connected, setting, JSONParse(bodyOf(rs)))

\* socket.on('data', ...)
HandleRoute(v, connected, setting, rs, route) ==
    CASE route = "options" ->
            Handled(route, FALSE, FALSE, FALSE, <<>>, <<optionsResponse>>)
      [] route = "print" -> HandlePrint(v, connected, setting, rs)
      [] route \in {"noBody", "noDelimiter"} ->
            Handled(route, FALSE, FALSE, FALSE, <<>>, <<postResponse(v, 400)>>)
      [] route = "returnToApp" ->
            Handled(route, FALSE, FALSE, FALSE, <<>>, <<returnResponse>>)
      [] OTHER ->
            Handled(route, FALSE, FALSE, FALSE, <<>>,
                    <<IF v = "BLE" THEN forbiddenResponse ELSE defaultResponse>>)

HandleData(v, connected, setting, data) ==
    HandleRoute(v, connected, setting, requestStr(v, data),
                Route(v, requestStr(v, data)))

\* disconnectFromDevice as the socket handler reaches it: the handler is
\* created by an effect that runs once, on mount, and so calls the
\* disconnectFromDevice of the first render, whose connectedDevice is the
\* initial state, null: it returns without clearing anything.
MountConnectedDevice == FALSE

disconnectFromDevice(closureDevice, ref) == IF closureDevice THEN FALSE ELSE ref

\* A request: request line, one header, the blank line, the body.
Framed(verbPath, body) ==
    verbPath \o TxtHttp \o CRLF \o Str(<<"H","o","s","t",":"," ","a">>) \o CRLF \o CRLF \o body

\* The bodies sent to /print: JSON texts, a broken one, none, white space only.
Bodies ==
    {JsonHeader, JsonNull, JsonNullLine, JsonNegativeWidth, JsonZeroWidth, JsonNarrowWidth,
     JsonBroken, <<>>, <<SP, LF>>}

\* The data events of the model: print requests, a request line without the
\* blank line, a pre-flight (also after a line break), the auxiliary path,
\* an unknown path, and a body arriving apart from its headers.
Chunks ==
    {Framed(TxtPostPrint, b) : b \in Bodies}
      \cup {TxtPostPrint \o TxtHttp \o CRLF,
            Framed(TxtOptions \o Str(<<" ", "/", "p", "r", "i", "n", "t">>), <<>>),
            CRLF \o Framed(TxtOptions \o Str(<<" ", "*">>), <<>>),
            Framed(TxtReturnToApp, <<>>),
            Framed(TxtGetStatus, <<>>),
            JsonHeader}

\* The width settings stored by the configuration screen.
StoredWidths == {Str(<<"3", "2">>), <<>>}

Init ==
    /\ LayoutIdle
    /\ rinvoice = Undefined
    /\ rwidth = Undefined
    /\ RenderIdle
    /\ variant \in {"BLE", "Classic"}
    /\ connectedDeviceRef \in BOOLEAN
    /\ currentCandidateRef = connectedDeviceRef
    /\ printerWidthRef \in StoredWidths
    /\ reqs = <<>>
    /\ wire = <<>>
    /\ writes = <<>>
    /\ hung = FALSE

\* The response resp to data event k, as written to the socket.
Reply(k, resp) ==
    [req |-> k, status |-> resp.status, declared |-> resp.declared, body |-> resp.body]

\* The write of data for data event k, handed to the transport: the BLE
\* component arms the 5-second timer of writeToDeviceWithTimeout.
NewWrite(v, k, data) ==
    [req |-> k, data |-> data, transport |-> "pending", promise |-> "pending",
     timedOut |-> FALSE, timer |-> IF v = "BLE" THEN "armed" ELSE "none"]

\* A data event arrives and the handler runs to its return or its await.
\* The effects of the run h of the handler on data event k.
Effects(k, chunk, h) ==
    /\ reqs' = Append(reqs,
                  [chunk |-> chunk, route |-> h.route, decoded |-> h.decoded,
                   rendered |-> h.rendered,
                   write |-> IF h.write = <<>> THEN 0 ELSE Len(writes) + 1])
    /\ writes' = writes \o [i \in 1..Len(h.write) |-> NewWrite(variant, k, h.write[i])]
    /\ wire' = wire \o [i \in 1..Len(h.respond) |-> Reply(k, h.respond[i])]
    /\ hung' = h.hang

Data(chunk) ==
    /\ ~hung
    /\ Len(reqs) < MaxChunks
    /\ Effects(Len(reqs) + 1, chunk,
               HandleData(variant,
                          Connected(variant, connectedDeviceRef, currentCandidateRef),
                          printerWidthRef, chunk))
    /\ UNCHANGED appVars
    /\ UNCHANGED <<layoutVars, renderVars>>

\* What follows the settling of the promise printInvoice awaits: on a
\* rejection printInvoice calls disconnectFromDevice; the BLE handler resumes
\* and writes its response, the Classic handler answered long ago.
AfterWrite(w, ok) ==
    /\ wire' = IF HandlerAwaitsPrint(variant)
               THEN Append(wire, Reply(writes[w].req,
                                       postResponse(variant, IF ok THEN 200 ELSE 500)))
               ELSE wire
    /\ connectedDeviceRef' =
           IF ok THEN connectedDeviceRef
           ELSE disconnectFromDevice(MountConnectedDevice, connectedDeviceRef)
    /\ currentCandidateRef' =
           IF ok THEN currentCandidateRef
           ELSE disconnectFromDevice(MountConnectedDevice, currentCandidateRef)

\* WriteResolves without the test of timedOut: a completion after the timeout
\* resolves the promise.
WriteResolves_ignoresTimedOut(w) ==
    /\ ~hung
    /\ writes[w].transport = "pending"
    /\ writes' = [writes EXCEPT ![w].transport = "ok",
                                ![w].promise = "resolved",
                                ![w].timer = IF @ = "armed" THEN "cleared" ELSE @]
    /\ AfterWrite(w, TRUE)
    /\ UNCHANGED <<variant, printerWidthRef, reqs, hung>>
    /\ UNCHANGED <<layoutVars, renderVars>>

\* The transport reports the write done (.then of writeToDeviceWithTimeout,
\* the await of the Classic printInvoice).
WriteResolves(w) ==
    /\ ~hung
    /\ writes[w].transport = "pending"
    /\ IF writes[w].timedOut
       THEN /\ writes' = [writes EXCEPT ![w].transport = "ok"]
            /\ UNCHANGED <<wire, connectedDeviceRef, currentCandidateRef>>
       ELSE /\ writes' = [writes EXCEPT ![w].transport = "ok",
                                        ![w].promise = "resolved",
                                        ![w].timer = IF @ = "armed" THEN "cleared" ELSE @]
            /\ AfterWrite(w, TRUE)
    /\ UNCHANGED <<variant, printerWidthRef, reqs, hung>>
    /\ UNCHANGED <<layoutVars, renderVars>>

\* The transport reports an error (.catch).
WriteRejects(w) ==
    /\ ~hung
    /\ writes[w].transport = "pending"
    /\ IF writes[w].timedOut
       THEN /\ writes' = [writes EXCEPT ![w].transport = "err"]
            /\ UNCHANGED <<wire, connectedDeviceRef, currentCandidateRef>>
       ELSE /\ writes' = [writes EXCEPT ![w].transport = "err",
                                        ![w].promise = "rejected",
                                        ![w].timer = IF @ = "armed" THEN "cleared" ELSE @]
            /\ AfterWrite(w, FALSE)
    /\ UNCHANGED <<variant, printerWidthRef, reqs, hung>>
    /\ UNCHANGED <<layoutVars, renderVars>>

\* The timer of writeToDeviceWithTimeout fires: the promise is rejected.
TimerFires(w) ==
    /\ ~hung
    /\ writes[w].timer = "armed"
    /\ writes' = [writes EXCEPT ![w].timedOut = TRUE,
                                ![w].timer = "fired",
                                ![w].promise = "rejected"]
    /\ AfterWrite(w, FALSE)
    /\ UNCHANGED <<variant, printerWidthRef, reqs, hung>>
    /\ UNCHANGED <<layoutVars, renderVars>>

\* The user connects a printer on the device screen: both refs are set.
UserConnects ==
    /\ ~hung
    /\ ~(connectedDeviceRef /\ currentCandidateRef)
    /\ connectedDeviceRef' = TRUE
    /\ currentCandidateRef' = TRUE
    /\ UNCHANGED <<variant, printerWidthRef, reqs, wire, writes, hung>>
    /\ UNCHANGED <<layoutVars, renderVars>>

\* The user disconnects on the device screen (the current render's
\* disconnectFromDevice, which sees the connected device).
UserDisconnects ==
    /\ ~hung
    /\ connectedDeviceRef
    /\ connectedDeviceRef' = disconnectFromDevice(connectedDeviceRef, connectedDeviceRef)
    /\ currentCandidateRef' = disconnectFromDevice(connectedDeviceRef, currentCandidateRef)
    /\ UNCHANGED <<variant, printerWidthRef, reqs, wire, writes, hung>>
    /\ UNCHANGED <<layoutVars, renderVars>>

Next ==
    \/ \E chunk \in Chunks : Data(chunk)
    \/ \E w \in 1..Len(writes) : WriteResolves(w)
    \/ \E w \in 1..Len(writes) : WriteRejects(w)
    \/ \E w \in 1..Len(writes) : TimerFires(w)
    \/ UserConnects
    \/ UserDisconnects

Spec == Init /\ [][Next]_vars

\* The timer of writeToDeviceWithTimeout is a setTimeout of 5 seconds: once
\* armed and not cleared, it fires.
TimersFire == WF_vars(\E w \in 1..Len(writes) : TimerFires(w))

LiveSpec == Init /\ [][Next]_vars /\ TimersFire

----------------------------------------------------------------------------
(* Reading a command stream as the printer does: commands apart from text. *)

Tag(name, k) == [tag |-> name, k |-> k]

\* The tag of a sample value's first character.
TagOfMarker(c) ==
    LET n == c - MarkerBase
    IN IF n \in 1..Len(FieldOrder) THEN Tag(FieldOrder[n], 0)
       ELSE IF n \in 31..39 THEN Tag("productName", n - 30)
       ELSE IF n \in 41..49 THEN Tag("uom", n - 40)
       ELSE IF n \in 51..59 THEN Tag("vatType", n - 50)
       ELSE Tag("text", c)

\* Whether position i of the stream starts a command, a sample value, a
\* sample total or a run of dots.
Marked(s, i) ==
    \/ s[i] \in {ESC, GS} /\ i < Len(s)
    \/ s[i] >= MarkerBase
    \/ s[i] \in {53, 54, 55}
    \/ s[i] = 46 /\ i < Len(s) /\ s[i + 1] = 46 /\ (i = 1 \/ s[i - 1] # 46)

\* The first marked position from i on, or the position after the end.
NextMarked(s, i) ==
    LET ms == {j \in i..Len(s) : Marked(s, j)}
    IN IF ms = {} THEN Len(s) + 1 ELSE CHOOSE j \in ms : \A k \in ms : j <= k

\* The item at the marked position i: its tags and the position after it.
\* The parameters of a GS ( k command are skipped by its length bytes, but
\* the payload of its store function (80) is read on as text.
Item(s, i) ==
    IF s[i] = ESC THEN
        CASE s[i + 1] = 64 -> [tags |-> <<Tag("reset", 0)>>, next |-> i + 2]
          [] s[i + 1] = 97 -> [tags |-> <<Tag("align", s[i + 2])>>, next |-> i + 3]
          [] s[i + 1] = 69 -> [tags |-> <<Tag("bold", s[i + 2])>>, next |-> i + 3]
          [] s[i + 1] = 100 -> [tags |-> <<Tag("feed", s[i + 2])>>, next |-> i + 3]
          [] OTHER -> [tags |-> <<Tag("unknown", s[i + 1])>>, next |-> i + 2]
    ELSE IF s[i] = GS THEN
        CASE s[i + 1] = 33 -> [tags |-> <<Tag("size", s[i + 2])>>, next |-> i + 3]
          [] s[i + 1] = 40 ->
                [tags |-> <<Tag("qr", s[i + 6])>>,
                 next |-> IF s[i + 6] = 80 THEN i + 8
                          ELSE i + 5 + s[i + 3] + 256 * s[i + 4]]
          [] OTHER -> [tags |-> <<Tag("unknown", s[i + 1])>>, next |-> i + 2]
    ELSE IF s[i] >= MarkerBase THEN [tags |-> <<TagOfMarker(s[i])>>, next |-> i + 1]
    ELSE IF s[i] = 53 THEN [tags |-> <<Tag("totalPriceNoVat", 0)>>, next |-> i + 1]
    ELSE IF s[i] = 54 THEN [tags |-> <<Tag("totalDiscount", 0)>>, next |-> i + 1]
    ELSE IF s[i] = 55 THEN [tags |-> <<Tag("totalPrice", 0)>>, next |-> i + 1]
    ELSE [tags |-> <<Tag("dots", 0)>>, next |-> i + 1]

\* What the stream holds from position i on, in order: each command, each
\* sample value (by its first character), each sample total (5, 6 and 7),
\* each run of dots.
RECURSIVE TagsFrom(_, _)
TagsFrom(s, m) ==
    IF m > Len(s) THEN <<>>
    ELSE Item(s, m).tags \o TagsFrom(s, NextMarked(s, Item(s, m).next))

Tags(s, i) == TagsFrom(s, NextMarked(s, i))

\* Whether position i starts a command, and the first such position from i on.
IsCommand(s, i) == s[i] \in {ESC, GS} /\ i < Len(s)

NextCommand(s, i) ==
    LET cs == {j \in i..Len(s) : IsCommand(s, j)}
    IN IF cs = {} THEN Len(s) + 1 ELSE CHOOSE j \in cs : \A k \in cs : j <= k

\* The text of the stream: what is left when the commands are taken out.
RECURSIVE TextOf(_, _)
TextOf(s, i) ==
    IF i > Len(s) THEN <<>>
    ELSE IF ~IsCommand(s, i)
        THEN SubSeq(s, i, NextCommand(s, i) - 1) \o TextOf(s, NextCommand(s, i))
    ELSE IF s[i] = ESC THEN
        (IF s[i + 1] = 64 THEN TextOf(s, i + 2) ELSE TextOf(s, i + 3))
    ELSE IF s[i + 1] = 33 THEN TextOf(s, i + 3)
    ELSE TextOf(s, i + 5 + s[i + 3] + 256 * s[i + 4])

\* The width formatInvoice works with.
EffectiveWidth(w) == IF Truthy(w) THEN w.n ELSE DefaultWidth

Has(inv, f) == Get(inv, f).t # "undefined"

----------------------------------------------------------------------------
(* Observations on strings, used to state the layout properties.           *)

HasLF(s) == \E i \in 1..Len(s) : s[i] = LF

\* The physical lines of a string: the maximal runs between line breaks.
PhysicalLines(s) == SplitLF(s)

\* s without the characters at the positions where a wrap to w columns puts
\* its breaks (every (w+1)-th position).
WithoutBreaksAt(s, w) ==
    [j \in 1..(Len(s) - Len(s) \div (w + 1)) |-> s[j + (j - 1) \div w]]

\* s without its line breaks and spaces.
IsInk(c) == c # LF /\ c # SP
Ink(s) == SelectSeq(s, IsInk)

OnlySpaces(s) == \A i \in 1..Len(s) : s[i] = SP

----------------------------------------------------------------------------
(* C8: for every width in 8..80 and every text longer than width, every     *)
(* physical line of wrapText(text, width) has at most width characters, the *)
(* breaks sit after every width-th character, and the result without those  *)
(* inserted breaks is the original text.                                    *)
C8_WrapRespectsWidth ==
    (lop = "wrapText" /\ lwidth \in 8..80 /\ Len(ltext) > lwidth) =>
        /\ \A i \in 1..Len(PhysicalLines(lout)) :
               Len(PhysicalLines(lout)[i]) <= lwidth
        /\ \A i \in 1..Len(lout) : (i % (lwidth + 1) = 0) => lout[i] = LF
        /\ WithoutBreaksAt(lout, lwidth) = ltext

\* A text of more than two widths was wrapped into at least three lines.
C8_Witness ==
    /\ lop = "wrapText"
    /\ lwidth \in 8..80
    /\ Len(ltext) > 2 * lwidth
    /\ ~HasLF(ltext)
    /\ Len(PhysicalLines(lout)) >= 3

----------------------------------------------------------------------------
(* C9 as stated: whenever left and right fit into width, the result of     *)
(* leftRightTextWrapped is a single line of exactly width characters that  *)
(* starts with left, ends with right and has only spaces between.          *)
C9_FitCaseAnyLeft ==
    (lop = "leftRightTextWrapped" /\ Len(ltext) + Len(lright) <= lwidth) =>
        /\ Len(lout) = lwidth
        /\ SubSeq(lout, 1, Len(ltext)) = ltext
        /\ SubSeq(lout, lwidth - Len(lright) + 1, lwidth) = lright
        /\ OnlySpaces(SubSeq(lout, Len(ltext) + 1, lwidth - Len(lright)))

(* C9, amended: the same for every left that holds no line break (and for  *)
(* leftRightText for every left); the result is a single line when right   *)
(* holds no line break either.                                             *)
C9_FitCase ==
    (/\ lop \in {"leftRightTextWrapped", "leftRightText"}
     /\ Len(ltext) + Len(lright) <= lwidth
     /\ (lop = "leftRightTextWrapped" => ~HasLF(ltext))) =>
        /\ Len(lout) = lwidth
        /\ SubSeq(lout, 1, Len(ltext)) = ltext
        /\ SubSeq(lout, lwidth - Len(lright) + 1, lwidth) = lright
        /\ OnlySpaces(SubSeq(lout, Len(ltext) + 1, lwidth - Len(lright)))
        /\ (~HasLF(ltext) /\ ~HasLF(lright)) => ~HasLF(lout)

\* A fitting pair with room to spare was laid out by leftRightTextWrapped.
C9_Witness ==
    /\ lop = "leftRightTextWrapped"
    /\ Len(ltext) >= 2
    /\ Len(lright) >= 1
    /\ ~HasLF(ltext)
    /\ Len(ltext) + Len(lright) < lwidth
    /\ Len(lout) = lwidth

----------------------------------------------------------------------------
(* C10 as stated: in every overflow case, also when right alone fills the  *)
(* width, left is wrapped to width - len(right) columns (none when that is *)
(* not positive) and only its first line carries right: the first physical *)
(* line holds at most that many characters before right, a later one at    *)
(* most that many.                                                         *)
C10_OverflowAlwaysWrapped ==
    (/\ lop = "leftRightTextWrapped"
     /\ Len(ltext) + Len(lright) > lwidth
     /\ ~HasLF(lright)) =>
        LET leftWidth == Max(0, lwidth - Len(lright))
            lines == PhysicalLines(lout)
        IN /\ Len(lines[1]) <= leftWidth + Len(lright)
           /\ \A i \in 2..Len(lines) : Len(lines[i]) <= leftWidth

(* C10, amended: in an overflow case with len(right) < width, right sits in *)
(* columns width-len(right)+1..width of the first physical line, the lines  *)
(* after it hold at most width-len(right) characters and nothing of right,  *)
(* the characters of left are all there in order, and the padding before    *)
(* right is never negative; with len(right) >= width the result is left     *)
(* immediately followed by right, unwrapped and unpadded.                   *)
C10_OverflowCase ==
    (lop = "leftRightTextWrapped" /\ Len(ltext) + Len(lright) > lwidth) =>
        LET leftWidth == lwidth - Len(lright)
            first == SubSeq(lout, 1, leftWidth)
            rest == SubSeq(lout, lwidth + 1, Len(lout))
        IN IF leftWidth > 0
           THEN /\ Len(lout) >= lwidth
                /\ ~HasLF(first)
                /\ SubSeq(lout, leftWidth + 1, lwidth) = lright
                /\ \A i \in 1..Len(PhysicalLines(rest)) :
                       Len(PhysicalLines(rest)[i]) <= leftWidth
                /\ \A i \in 1..Len(rest) : rest[i] \in {ltext[j] : j \in 1..Len(ltext)} \cup {LF}
                /\ Ink(first \o rest) = Ink(ltext)
                /\ Len(Ink(first)) <= leftWidth
           ELSE lout = ltext \o lright

\* A left text longer than the columns right leaves was wrapped onto later lines.
C10_Witness ==
    /\ lop = "leftRightTextWrapped"
    /\ Len(lright) >= 1
    /\ lwidth - Len(lright) >= 2
    /\ ~HasLF(ltext)
    /\ Len(ltext) > lwidth - Len(lright)
    /\ HasLF(lout)
----------------------------------------------------------------------------
(* C4: the renderer never raises: for every input value formatInvoice      *)
(* returns a string, the empty one when the input is no object, and also   *)
(* when a lines or vat sequence holds a null element. (Stated for the      *)
(* widths the layout is defined for.)                                      *)
C4_NeverRaises ==
    (rcall # "idle" /\ EffectiveWidth(rwidth) > 0) =>
        /\ rcall = "return"
        /\ (rinvoice.t \in {"undefined", "null", "number", "string"}) => rout = <<>>

----------------------------------------------------------------------------
(* C5: an invoice lacking one optional field renders without that field's  *)
(* text and without a line for it, and the invoice lacking every field     *)
(* renders to the skeleton only: center on, resets, one dotted separator   *)
(* of width characters, the 1-line feed and the 4-line feed; it has no     *)
(* other printable line.                                                   *)
C5_FieldOmissionSafety ==
    (rcall # "idle" /\ EffectiveWidth(rwidth) > 0) =>
        /\ (rinvoice = EmptyInvoice) =>
              /\ rcall = "return"
              /\ TextOf(rout, 1) = dottedLineLocal(EffectiveWidth(rwidth))
        /\ \A f \in Fields :
              (rinvoice = SampleInvoice(Fields \ {f})) =>
                  /\ rcall = "return"
                  /\ \A i \in 1..Len(Tags(rout, 1)) : Tags(rout, 1)[i].tag # f
                  /\ \A i \in 1..Len(PhysicalLines(TextOf(rout, 1))) :
                         Ink(PhysicalLines(TextOf(rout, 1))[i]) = <<>> =>
                             i = Len(PhysicalLines(TextOf(rout, 1)))

----------------------------------------------------------------------------
(* C6: the sections of the output come in the fixed order: center on,      *)
(* header, TIN, address, invoice type (bold, enlarged, then reset), reset, *)
(* the metadata lines, dotted separator, the line items in input order,    *)
(* dotted separator, no-VAT subtotal, total discount, VAT lines in input   *)
(* order, grand total (bold, then reset), reset, customer block, (reset,)  *)
(* 1-line feed, QR block, IIC, FIC, EIC, footer, 4-line feed; and every    *)
(* output of a rendered document ends with the 4-line feed command.        *)

\* The tag of a present text or total field.
P(inv, f) == IF Has(inv, f) THEN <<Tag(f, 0)>> ELSE <<>>

\* The tags of sample line items 1..n and of sample VAT lines 1..n, in order.
RECURSIVE ItemTags(_)
ItemTags(n) ==
    IF n = 0 THEN <<>>
    ELSE ItemTags(n - 1) \o <<Tag("uom", n), Tag("productName", n)>>

RECURSIVE VatTags(_)
VatTags(n) == IF n = 0 THEN <<>> ELSE VatTags(n - 1) \o <<Tag("vatType", n)>>

\* The order the claim gives, for an invoice of sample values.
ClaimedOrder(inv) ==
    <<Tag("align", 1)>>
      \o P(inv, "header") \o P(inv, "tin") \o P(inv, "address")
      \o (IF Has(inv, "invoiceType")
          THEN <<Tag("bold", 1), Tag("size", 17), Tag("invoiceType", 0), Tag("reset", 0)>>
          ELSE <<>>)
      \o <<Tag("reset", 0)>>
      \o P(inv, "invNumber") \o P(inv, "fiscString") \o P(inv, "buCode")
      \o P(inv, "opCode") \o P(inv, "Date") \o P(inv, "FiscDateRange")
      \o P(inv, "TaxPointDate")
      \o <<Tag("dots", 0)>>
      \o (IF Has(inv, "lines")
          THEN ItemTags(Len(Get(inv, "lines").items)) \o <<Tag("dots", 0)>>
          ELSE <<>>)
      \o P(inv, "totalPriceNoVat") \o P(inv, "totalDiscount")
      \o (IF Has(inv, "vat") THEN VatTags(Len(Get(inv, "vat").items)) ELSE <<>>)
      \o (IF Has(inv, "totalPrice")
          THEN <<Tag("bold", 1), Tag("totalPrice", 0), Tag("reset", 0)>>
          ELSE <<>>)
      \o <<Tag("reset", 0)>>
      \o P(inv, "CustomerName") \o P(inv, "CustomerTin")
      \o P(inv, "CustomerContact") \o P(inv, "CustomerAddress")
      \o <<Tag("reset", 0), Tag("feed", 1)>>
      \o (IF Has(inv, "qrCode")
          THEN <<Tag("align", 1), Tag("qr", 65), Tag("qr", 67), Tag("qr", 69),
                 Tag("qr", 80), Tag("qrCode", 0), Tag("qr", 81), Tag("align", 0)>>
          ELSE <<>>)
      \o P(inv, "IIC") \o P(inv, "FIC") \o P(inv, "EIC") \o P(inv, "Footer")
      \o <<Tag("feed", 4)>>

C6_FixedSectionOrder ==
    (rcall = "return" /\ TypeOf(rinvoice) = "object" /\ Truthy(rinvoice)) =>
        /\ Len(rout) >= 3
        /\ SubSeq(rout, Len(rout) - 2, Len(rout)) = <<ESC, 100, 4>>
        /\ (rinvoice \in PresenceInvoices) => Tags(rout, 1) = ClaimedOrder(rinvoice)

\* The invoice with every field present was rendered, wrapped to 8 columns.
C6_Witness ==
    /\ rcall = "return"
    /\ rinvoice = FullInvoice
    /\ rwidth = JNum(8)
    /\ Len(Tags(rout, 1)) > 40

----------------------------------------------------------------------------
(* Observations on a connection.                                           *)

\* Data event k has been answered.
Answered(k) == \E i \in 1..Len(wire) : wire[i].req = k

\* The write handed to the transport for data event k (which has one).
WriteOf(k) == writes[reqs[k].write]

\* The chunk of data event k as the claims read it: without surrounding
\* white space, its body the trimmed text after the first CRLF CRLF.
ChunkText(k) == Trim(reqs[k].chunk)

IsPrintChunk(c) == StartsWith(c, TxtPostPrint)

HasBody(c) == indexOf(c, delimiter) >= 0 /\ bodyOf(c) # <<>>

----------------------------------------------------------------------------
(* C1: dispatch routing: of the chunks the handler has answered, a chunk   *)
(* starting with POST /print whose body is valid JSON was rendered and     *)
(* answered 200; a POST /print chunk with an empty body or without the     *)
(* CRLF CRLF delimiter was answered 400; a chunk starting with OPTIONS was *)
(* answered 204 with no body; a chunk with none of the recognised prefixes *)
(* was answered 403.                                                       *)
C1_DispatchRouting ==
    \A i \in 1..Len(wire) :
        LET k == wire[i].req
            c == ChunkText(k)
        IN /\ (IsPrintChunk(c) /\ HasBody(c) /\ JSONParse(bodyOf(c)).ok) =>
                  (reqs[k].rendered /\ wire[i].status = 200)
           /\ (IsPrintChunk(c) /\ ~HasBody(c)) => wire[i].status = 400
           /\ StartsWith(c, TxtOptions) =>
                  (wire[i].status = 204 /\ wire[i].body = <<>>)
           /\ (~IsPrintChunk(c) /\ ~StartsWith(c, TxtOptions)
                 /\ ~StartsWith(c, TxtReturnToApp)) => wire[i].status = 403

----------------------------------------------------------------------------
(* C2: per-connection ordering: the responses are written to the socket in *)
(* the arrival order of their chunks, also when a print request's          *)
(* transport write is pending while the next chunk arrives.                *)
C2_ResponsesInArrivalOrder ==
    \A i, j \in 1..Len(wire) : i < j => wire[i].req < wire[j].req

----------------------------------------------------------------------------
(* C3: the response to a POST /print request whose body decoded is written *)
(* only after the render and the hand-off to the transport.                *)

----------------------------------------------------------------------------
(* Further observations on a connection.                                   *)

\* The responses written for data event k, in order.
RepliesTo(k) == SelectSeq(wire, LAMBDA r : r.req = k)

\* The writes handed to the transport for data event k, in order.
WritesFor(k) == SelectSeq(writes, LAMBDA w : w.req = k)

\* Data event k is a POST /print whose body is not empty and is no JSON text.
DecodeFailed(k) ==
    /\ IsPrintChunk(ChunkText(k))
    /\ HasBody(ChunkText(k))
    /\ ~JSONParse(bodyOf(ChunkText(k))).ok

\* Data event k is a POST /print without a body or without the delimiter.
FramingFailed(k) == IsPrintChunk(ChunkText(k)) /\ ~HasBody(ChunkText(k))

\* The write of data event k failed: the transport reported an error or the
\* timer fired first.
DeliveryFailed(k) == reqs[k].write # 0 /\ WriteOf(k).promise = "rejected"

----------------------------------------------------------------------------
(* C11: decode failure: a POST /print whose body is not empty and is not   *)
(* valid JSON is answered with an error status (4xx or 5xx), the renderer  *)
(* is not invoked, nothing is written to the printer transport, and the    *)
(* handler goes on serving the connection.                                 *)
C11_DecodeFailure ==
    \A k \in 1..Len(reqs) :
        DecodeFailed(k) =>
            /\ Len(RepliesTo(k)) = 1
            /\ RepliesTo(k)[1].status \in 400..599
            /\ ~reqs[k].rendered
            /\ WritesFor(k) = <<>>
            /\ (k = Len(reqs) => ~hung)

----------------------------------------------------------------------------
(* C12: delivery failure is signalled distinctly: the status written for a *)
(* print request whose transport write failed (error or timeout) differs   *)
(* from the status written for a decode failure and from the status        *)
(* written for a framing failure.                                          *)
C12_DeliveryFailureDistinct ==
    \A k, m \in 1..Len(reqs) :
        (/\ DeliveryFailed(k) /\ Answered(k)
         /\ (DecodeFailed(m) \/ FramingFailed(m)) /\ Answered(m)) =>
            RepliesTo(k)[1].status # RepliesTo(m)[1].status

----------------------------------------------------------------------------
(* C13: every response written to the socket declares a Content-Length     *)
(* equal to the number of characters of its body.                          *)
C13_ContentLengthExact ==
    \A i \in 1..Len(wire) : wire[i].declared = Len(wire[i].body)

----------------------------------------------------------------------------
(* C14: at most one transport write per print request: a request causes at *)
(* most one write, the write carries the complete rendered and encoded     *)
(* command stream of the request's document, and after a failed or         *)
(* timed-out write no further write is made for the request.               *)

\* The document of data event k and the bytes its rendering encodes to.
DocumentOf(k) == JSONParse(bodyOf(requestStr(variant, reqs[k].chunk))).value

RenderedBytes(doc) ==
    Latin1(formatInvoice(doc, invoiceWidth(variant, printerWidthRef, doc)).out)

C14_OneCompleteWrite ==
    \A k \in 1..Len(reqs) :
        /\ Len(WritesFor(k)) <= 1
        /\ Len(WritesFor(k)) = 1 =>
               /\ reqs[k].decoded /\ reqs[k].rendered
               /\ WritesFor(k)[1].data = RenderedBytes(DocumentOf(k))

\* A write timed out, its request was answered, and no second write was made.
C14_Witness ==
    \E k \in 1..Len(reqs) :
        /\ reqs[k].write # 0
        /\ WriteOf(k).timedOut
        /\ Answered(k)
        /\ Len(WritesFor(k)) = 1
        /\ Len(WriteOf(k).data) > 0

----------------------------------------------------------------------------
(* C15: separator after line items: the second dotted separator is emitted *)
(* if and only if at least one line item was rendered, i.e. at least one   *)
(* element of lines has both quantity and price present; a non-empty lines *)
(* sequence without a renderable element produces no second separator.     *)

\* The element has both quantity and price.
Renderable(line) ==
    /\ CanRead(line)
    /\ NotNullish(Get(line, "quantity"))
    /\ NotNullish(Get(line, "price"))

\* Some element of invoice.lines is rendered.
SomeLineRendered(inv) ==
    /\ Get(inv, "lines").t = "array"
    /\ \E i \in 1..Len(Get(inv, "lines").items) : Renderable(Get(inv, "lines").items[i])

\* The number of dotted separators in a command stream.
IsDots(t) == t.tag = "dots"
DotsCount(s) == Len(SelectSeq(Tags(s, 1), IsDots))

C15_SecondSeparator ==
    (/\ rcall = "return"
     /\ rinvoice.t = "object"
     /\ EffectiveWidth(rwidth) > 0) =>
        DotsCount(rout) = IF SomeLineRendered(rinvoice) THEN 2 ELSE 1

----------------------------------------------------------------------------
(* C16: customer block: for every combination of present and absent        *)
(* customer fields the block has exactly one line per present field, in    *)
(* the order name, TIN, contact, address; an absent field contributes no   *)
(* line, and with all four absent the block contributes no line at all.    *)
(* (Stated for the widths at which the sample block needs no wrapping.)    *)

\* The values of the customer fields present in inv, in block order.
PresentCustomerValues(inv) ==
    LET IsPresent(f) == Has(inv, f)
        present == SelectSeq(CustomerFields, IsPresent)
    IN [i \in 1..Len(present) |-> Get(inv, present[i]).s]

\* The lines of a text that ends with a line break (none for the empty text).
LinesOf(s) == IF s = <<>> THEN <<>> ELSE SplitLF(SubSeq(s, 1, Len(s) - 1))

\* The lines printed after the dotted separator by an invoice that has
\* nothing but customer fields: the lines of the customer block.
CustomerBlockLines(s, w) == LinesOf(SubSeq(TextOf(s, 1), w + 2, Len(TextOf(s, 1))))

OneLinePerValue(lines, values) ==
    /\ Len(lines) = Len(values)
    /\ \A i \in 1..Len(values) : Ink(lines[i]) = values[i]

C16_CustomerBlock ==
    (/\ rcall = "return"
     /\ rinvoice \in CustomerInvoices
     /\ EffectiveWidth(rwidth) >= 32) =>
        OneLinePerValue(CustomerBlockLines(rout, EffectiveWidth(rwidth)),
                        PresentCustomerValues(rinvoice))

----------------------------------------------------------------------------
(* C17: rendering conditions of repeated items: a line item produces output *)
(* if and only if both its quantity and its price are present (0 counts as  *)
(* present), a VAT line if and only if both its vatType and its amount are  *)
(* present; an item that does not meet the condition produces no output and *)
(* leaves the output of the other items as it is.                           *)

\* The VAT line has both vatType and amount.
VatRenderable(vatItem) ==
    /\ CanRead(vatItem)
    /\ NotNullish(Get(vatItem, "vatType"))
    /\ NotNullish(Get(vatItem, "amount"))

\* inv with the array items in field f, and the output it renders to.
WithItems(inv, f, items) == JObj([inv.f EXCEPT ![f] = JArr(items)])
RenderOf(inv, w) == formatInvoice(inv, w).out

\* items without its i-th element
Without(items, i) == SubSeq(items, 1, i - 1) \o SubSeq(items, i + 1, Len(items))

\* The elements of field f of the rendered invoice, when that is an array of
\* items whose fields can be read.
ItemsOf(f) ==
    IF Get(rinvoice, f).t = "array"
         /\ \A i \in 1..Len(Get(rinvoice, f).items) : CanRead(Get(rinvoice, f).items[i])
    THEN Get(rinvoice, f).items ELSE <<>>

C17_RepeatedItems ==
    (/\ rcall = "return"
     /\ rinvoice.t = "object"
     /\ EffectiveWidth(rwidth) > 0) =>
        /\ (\E i \in 1..Len(ItemsOf("lines")) : Renderable(ItemsOf("lines")[i])) =>
               rout = RenderOf(WithItems(rinvoice, "lines",
                                         SelectSeq(ItemsOf("lines"), Renderable)), rwidth)
        /\ \A i \in 1..Len(ItemsOf("lines")) :
               Renderable(ItemsOf("lines")[i]) =>
                   rout # RenderOf(WithItems(rinvoice, "lines",
                                             Without(ItemsOf("lines"), i)), rwidth)
        /\ ItemsOf("vat") # <<>> =>
               rout = RenderOf(WithItems(rinvoice, "vat",
                                         SelectSeq(ItemsOf("vat"), VatRenderable)), rwidth)
        /\ \A i \in 1..Len(ItemsOf("vat")) :
               VatRenderable(ItemsOf("vat")[i]) =>
                   rout # RenderOf(WithItems(rinvoice, "vat",
                                             Without(ItemsOf("vat"), i)), rwidth)

\* A line item with quantity 0 was rendered between two sample items.
C17_Witness ==
    /\ rcall = "return"
    /\ Len(ItemsOf("lines")) = 3
    /\ Get(ItemsOf("lines")[2], "quantity") = JNum(0)
    /\ \E i \in 1..Len(Tags(rout, 1)) : Tags(rout, 1)[i] = Tag("productName", 1)

----------------------------------------------------------------------------
(* The layout of the sequence printQRCode returns: center on (3 code       *)
(* units), model command (9), size command (8, the module-size byte last), *)
(* error correction command (8), store command (GS ( k pL pH 1 P 0 and the *)
(* payload), print command (8), center off (3).                            *)

QrCalled == lop \in {"printQRCode", "printQRCode_appjs"}

SizeByteAt == 20
PrefixAt == 32
PayloadAt == 37

\* s with the module-size byte blanked.
WithoutSizeByte(s) == [s EXCEPT ![SizeByteAt] = 0]

----------------------------------------------------------------------------
(* C18: QR clamping: for every integer moduleSize the module-size byte     *)
(* equals max(1, min(moduleSize, 8)), so 20 gives the byte of 8 and 0 the  *)
(* byte of 1, and the rest of the sequence does not depend on moduleSize.  *)
C18_QrClamping ==
    QrCalled =>
        /\ lout[SizeByteAt] = Max(1, Min(lwidth, 8))
        /\ lout[SizeByteAt] \in 1..8
        /\ SubSeq(lout, SizeByteAt - 7, SizeByteAt - 1) = <<GS, 40, 107, 3, 0, 49, 67>>
        /\ WithoutSizeByte(lout) =
               WithoutSizeByte(IF lop = "printQRCode"
                               THEN printQRCode(ltext, 8) ELSE printQRCode_appjs(ltext, 8))

\* printQRCode was called with a module size below 1.
C18_Witness == QrCalled /\ lwidth = 0 /\ lout[SizeByteAt] = 1 /\ Len(ltext) > 0

----------------------------------------------------------------------------
(* C19: QR payload length prefix: for every payload the two bytes pL, pH   *)
(* of the store command satisfy pL + 256 * pH = len(data) + 3, each is in  *)
(* 0..255, and the payload follows the prefix unmodified.                  *)
C19_LengthPrefix ==
    QrCalled =>
        /\ lout[PrefixAt] \in 0..255
        /\ lout[PrefixAt + 1] \in 0..255
        /\ lout[PrefixAt] + 256 * lout[PrefixAt + 1] = Len(ltext) + 3
        /\ SubSeq(lout, PayloadAt, PayloadAt + Len(ltext) - 1) = ltext

----------------------------------------------------------------------------
(* C20: QR alignment: the sequence printQRCode returns begins with the     *)
(* center-alignment-on command and ends with the alignment-off (left)      *)
(* command: after a QR block the alignment is left, not what it was.       *)
C20_QrAlignment ==
    QrCalled =>
        /\ SubSeq(lout, 1, 3) = <<ESC, 97, 1>>
        /\ SubSeq(lout, Len(lout) - 2, Len(lout)) = <<ESC, 97, 0>>
        /\ Len(lout) = PayloadAt + Len(ltext) + 10

\* printQRCode was called on a payload that fills both length bytes.
C20_Witness == QrCalled /\ Len(ltext) = 254 /\ Len(lout) > 254

----------------------------------------------------------------------------
(* C21: discount arithmetic: for every rendered line item with             *)
(* discountAmount present the discount line prints " -" discountAmount "L " *)
(* and fullPrice - discountAmount "L", unclamped (negative when the        *)
(* discount exceeds the full price), with an absent fullPrice taken as 0;  *)
(* fullPrice 10 and discountAmount 3 print 7.                              *)

\* The amounts of a line item as the claim reads them.
FullPriceOf(line) ==
    IF NotNullish(Get(line, "fullPrice")) THEN Get(line, "fullPrice").n ELSE 0

Discounted(line) == Renderable(line) /\ NotNullish(Get(line, "discountAmount"))

\* The right-hand text of the discount line of a line item.
DiscountText(line) ==
    <<SP, 45>> \o NumToString(Get(line, "discountAmount").n) \o <<76, SP>>
        \o NumToString(FullPriceOf(line) - Get(line, "discountAmount").n) \o <<76>>

\* The physical lines of the printed text that start with the item's name.
NameLines(s, line) ==
    SelectSeq(PhysicalLines(TextOf(s, 1)),
              LAMBDA l : StartsWith(l, ToStr(Get(line, "productName"))))

C21_DiscountArithmetic ==
    (rcall = "return" /\ rinvoice.t = "object" /\ EffectiveWidth(rwidth) > 0) =>
        \A i \in 1..Len(ItemsOf("lines")) :
            LET line == ItemsOf("lines")[i]
            IN Discounted(line) =>
                /\ indexOf(Ink(TextOf(rout, 1)), Ink(DiscountText(line))) # -1
                /\ (rinvoice \in DiscountInvoices
                        /\ EffectiveWidth(rwidth) - Len(DiscountText(line))
                               >= Len(ToStr(Get(line, "productName")))) =>
                       NameLines(rout, line) =
                           <<PadEnd(ToStr(Get(line, "productName")),
                                    EffectiveWidth(rwidth) - Len(DiscountText(line)))
                               \o DiscountText(line)>>

\* A rendered item whose discount exceeds its full price, and the example.
C21_Witness ==
    /\ rcall = "return"
    /\ rinvoice \in DiscountInvoices
    /\ Get(ItemsOf("lines")[1], "fullPrice") = JNum(3)
    /\ Get(ItemsOf("lines")[1], "discountAmount") = JNum(5)
    /\ indexOf(TextOf(rout, 1), <<SP, 45, 53, 76, SP, 45, 50, 76>>) # -1

----------------------------------------------------------------------------
(* C22: width resolution: the width of a print is the invoice's            *)
(* printerWidth when the invoice supplies a usable one, otherwise the      *)
(* configured default width when it parses to a usable number, otherwise   *)
(* 48; an absent, zero or unparsable value falls through to the next level.*)

\* The width the claim resolves for a document under a stored setting.
ClaimedWidth(doc, setting) ==
    IF Get(doc, "printerWidth").t = "number" /\ Get(doc, "printerWidth").n # 0
    THEN Get(doc, "printerWidth").n
    ELSE parseIntOr48(setting)

\* The width a print was laid out for: the length of its dotted separator.
WidthPrinted(data) == Len(SelectSeq(data, LAMBDA c : c = 46))

C22_WidthResolution ==
    \A k \in 1..Len(reqs) :
        (reqs[k].write # 0 /\ DocumentOf(k).t = "object") =>
            WidthPrinted(WriteOf(k).data) = ClaimedWidth(DocumentOf(k), printerWidthRef)

----------------------------------------------------------------------------
(* C23: setTextSize fallback: for every integer level other than the       *)
(* preset levels 1 and 2, including 0 and the negative levels,             *)
(* setTextSize returns the normal-size command GS ! 0; the result depends  *)
(* only on the argument.                                                   *)
C23_SetTextSizeFallback ==
    (lop \in {"setTextSize", "setTextSize_appjs"} /\ lwidth \notin {1, 2}) =>
        lout = <<GS, 33, 0>>

----------------------------------------------------------------------------
(* C24: after the write of a print triggered by a socket request fails     *)
(* (transport error or timeout) the application leaves the connected       *)
(* state: the connected device and the write candidate are cleared, so     *)
(* that the next print request is reported as not connected.               *)

\* The step in which the write w is settled as failed.
FailsNow(w) ==
    /\ w \in 1..Len(writes)
    /\ writes[w].promise = "pending"
    /\ writes'[w].promise = "rejected"

C24_DisconnectOnFailure ==
    [][(\E w \in 1..Len(writes) : FailsNow(w)) =>
           /\ ~connectedDeviceRef'
           /\ ~currentCandidateRef']_vars

----------------------------------------------------------------------------
(* C25: a 200 status for a POST /print request is written only if the      *)
(* rendered bytes of that invoice were written to the printer transport    *)
(* and the transport reported success; a print request received while no   *)
(* printer is connected is not answered 200.                               *)

\* The write of data event k was made and the transport reported success.
Delivered(k) ==
    /\ reqs[k].write # 0
    /\ WriteOf(k).data = RenderedBytes(DocumentOf(k))
    /\ WriteOf(k).promise = "resolved"

C25_OkOnlyAfterDelivery ==
    \A i \in 1..Len(wire) :
        (wire[i].status = 200 /\ IsPrintChunk(ChunkText(wire[i].req))) =>
            Delivered(wire[i].req)

----------------------------------------------------------------------------
(* C26: a well-formed POST /print request is printed however its bytes are *)
(* split into chunks: when the request line and headers arrive in one data *)
(* event and the JSON body in the next, the invoice is rendered once and   *)
(* exactly one response is written for the request.                        *)

\* Data events k and k + 1 carry one well-formed print request: the head up
\* to the blank line, then the JSON body.
SplitRequest(k) ==
    /\ k < Len(reqs)
    /\ IsPrintChunk(reqs[k].chunk)
    /\ indexOf(reqs[k].chunk, delimiter) = Len(reqs[k].chunk) - Len(delimiter)
    /\ JSONParse(reqs[k + 1].chunk).ok
    /\ JSONParse(bodyOf(reqs[k].chunk \o reqs[k + 1].chunk)).ok

\* How many of the data events k and k + 1 reached the renderer.
RenderedOf(k) ==
    (IF reqs[k].rendered THEN 1 ELSE 0) + (IF reqs[k + 1].rendered THEN 1 ELSE 0)

C26_SplitRequestPrinted ==
    \A k \in 1..Len(reqs) :
        SplitRequest(k) =>
            /\ Len(RepliesTo(k)) + Len(RepliesTo(k + 1)) <= 1
            /\ (Answered(k) \/ Answered(k + 1)) => RenderedOf(k) = 1

----------------------------------------------------------------------------
(* C27: the bounded wait settles exactly once: the promise of              *)
(* writeToDeviceWithTimeout resolves when the transport completes the      *)
(* write before the timeout and rejects when the timer fires first; once   *)
(* the timer has fired a later completion or error of the transport does   *)
(* not change the outcome, and once the write has completed the timer is   *)
(* cancelled and cannot reject.                                            *)

\* The writes made through writeToDeviceWithTimeout (BLE component).
Timed(w) == writes[w].timer # "none"

\* The promise, the timer and the transport of write w agree.
SettledConsistently(w) ==
    /\ writes[w].promise = "pending" <=>
            (writes[w].timer = "armed" /\ writes[w].transport = "pending")
    /\ writes[w].promise = "resolved" =>
            (writes[w].transport = "ok" /\ writes[w].timer = "cleared")
    /\ writes[w].timer = "fired" <=> writes[w].timedOut
    /\ writes[w].timedOut => writes[w].promise = "rejected"
    /\ writes[w].timer = "cleared" =>
            (writes[w].transport # "pending" /\ ~writes[w].timedOut)
    /\ (writes[w].timer = "cleared" /\ writes[w].transport = "err") =>
            writes[w].promise = "rejected"
    /\ Len(RepliesTo(writes[w].req)) = IF writes[w].promise = "pending" THEN 0 ELSE 1

\* A settled promise and a timer no longer armed stay as they are.
SettlesOnce(w) ==
    /\ writes[w].promise # "pending" => writes'[w].promise = writes[w].promise
    /\ writes[w].timer # "armed" => writes'[w].timer = writes[w].timer

C27_SettlesExactlyOnce ==
    /\ [](\A w \in 1..Len(writes) : Timed(w) => SettledConsistently(w))
    /\ [][\A w \in 1..Len(writes) : Timed(w) => SettlesOnce(w)]_vars

\* The transport completed a write after its timer had fired.
C27_Witness ==
    \E w \in 1..Len(writes) :
        /\ Timed(w)
        /\ writes[w].timedOut
        /\ writes[w].transport = "ok"
        /\ writes[w].promise = "rejected"

----------------------------------------------------------------------------
(* C28: printer formatting state: reading the output as the printer does   *)
(* (reset clears bold, size and alignment), the invoice-type text is the   *)
(* only text printed enlarged, the grand-total line is the only text after *)
(* the header printed in bold, the metadata, line-item and totals text is  *)
(* printed left-aligned, and after the last command bold is off and the    *)
(* size is normal.                                                         *)

\* The formatting state of the printer, and the state after a reset.
Plain == [bold |-> 0, size |-> 0, align |-> 0]

\* The state after the command at position i, and the position after it.
Apply(s, i, st) ==
    IF s[i] = ESC THEN
        CASE s[i + 1] = 64 -> Plain
          [] s[i + 1] = 97 -> [st EXCEPT !.align = s[i + 2]]
          [] s[i + 1] = 69 -> [st EXCEPT !.bold = s[i + 2]]
          [] OTHER -> st
    ELSE IF s[i + 1] = 33 THEN [st EXCEPT !.size = s[i + 2]]
    ELSE st

AfterCommand(s, i) ==
    IF s[i] = ESC THEN (IF s[i + 1] = 64 THEN i + 2 ELSE i + 3)
    ELSE IF s[i + 1] = 33 THEN i + 3
    ELSE i + 5 + s[i + 3] + 256 * s[i + 4]

\* The runs of text of the stream from position i on, each with the state it
\* is printed in; the last element, of no text, holds the state at the end.
RECURSIVE RunsFrom(_, _, _)
RunsFrom(s, i, st) ==
    IF i > Len(s) THEN <<[text |-> <<>>, st |-> st]>>
    ELSE IF IsCommand(s, i) THEN RunsFrom(s, AfterCommand(s, i), Apply(s, i, st))
    ELSE <<[text |-> SubSeq(s, i, NextCommand(s, i) - 1), st |-> st]>>
             \o RunsFrom(s, NextCommand(s, i), st)

Runs(s) == RunsFrom(s, 1, Plain)

\* The texts of the header lines, of the invoice type and of the grand total.
HeaderText(inv, w) ==
    Seqn(<<IF Truthy(Get(inv, "header")) THEN wrapTextLine(Get(inv, "header"), w) ELSE Skip,
           IF Truthy(Get(inv, "tin")) THEN wrapTextLine(Get(inv, "tin"), w) ELSE Skip,
           IF Truthy(Get(inv, "address")) THEN wrapTextLine(Get(inv, "address"), w) ELSE Skip
         >>).out

TypeText(inv) == ToStr(Get(inv, "invoiceType")) \o <<LF>>

TotalText(inv, w) ==
    leftRightLine(LblShumaLeke, ToStr(Get(inv, "totalPrice")) \o <<76>>, w).out

\* Run r of the output is printed as the claim says.
RunAsClaimed(r, inv, w) ==
    Ink(r.text) # <<>> =>
        /\ r.st.size # 0 => (Truthy(Get(inv, "invoiceType")) /\ r.text = TypeText(inv))
        /\ r.st.bold # 0 =>
               \/ Truthy(Get(inv, "invoiceType")) /\ r.text = TypeText(inv)
               \/ NotNullish(Get(inv, "totalPrice")) /\ r.text = TotalText(inv, w)
        /\ r.st.align # 0 => r.text \in {HeaderText(inv, w), TypeText(inv)}

StateAsClaimed(runs, inv, w) ==
    /\ \A j \in 1..Len(runs) : RunAsClaimed(runs[j], inv, w)
    /\ Truthy(Get(inv, "invoiceType")) =>
           \E j \in 1..Len(runs) :
               /\ runs[j].text = TypeText(inv)
               /\ runs[j].st = [bold |-> 1, size |-> 17, align |-> 1]
    /\ NotNullish(Get(inv, "totalPrice")) =>
           \E j \in 1..Len(runs) :
               /\ runs[j].text = TotalText(inv, w)
               /\ runs[j].st = [bold |-> 1, size |-> 0, align |-> 0]
    /\ runs[Len(runs)].st.bold = 0
    /\ runs[Len(runs)].st.size = 0

----------------------------------------------------------------------------
(* C29: every data chunk received on a connection eventually results in    *)
(* exactly one response written to the socket (the timeout timer           *)
(* eventually fires), also when the transport never completes the write    *)
(* and when no printer is connected; the handler keeps dispatching.        *)

\* Data event k, once received, is eventually answered.
EventuallyAnswered(k) == [](Len(reqs) >= k => <>(Len(RepliesTo(k)) = 1))

AtMostOneReply == \A k \in 1..Len(reqs) : Len(RepliesTo(k)) <= 1

C29_EveryChunkAnswered ==
    /\ \A k \in 1..MaxChunks : EventuallyAnswered(k)
    /\ []AtMostOneReply

----------------------------------------------------------------------------
(* C30: rendering terminates for every width that can reach the renderer:  *)
(* for every invoice and every width the width resolution yields, also a   *)
(* negative or zero printerWidth of the invoice, formatInvoice and         *)
(* wrapText terminate.                                                     *)
C30_RenderingTerminates ==
    /\ ~hung
    /\ \A k \in 1..Len(reqs) :
           reqs[k].rendered =>
               formatInvoice(DocumentOf(k),
                             invoiceWidth(variant, printerWidthRef, DocumentOf(k))).kind
                   # "diverge"

====
